---- MODULE Spec2Model ----
(***************************************************************************)
(* A model of the OpenAPI -> MCP proxy: the tool catalogue built by        *)
(* OpenAPIToMCPConverter (openapi/parser.ts), and the list-tools and       *)
(* call-tool handlers of MCPProxy with their argument recovery             *)
(* (mcp/proxy.ts).                                                         *)
(*                                                                         *)
(* Text is modelled by TLA+ strings, which are sequences of characters:    *)
(* Len, \o and SubSeq do what length, + and slice do in the source.        *)
(* JavaScript values are tagged records [t |-> <typeof / kind>, v |-> ...].*)
(***************************************************************************)
EXTENDS Integers, Sequences, FiniteSets, TLC

(***************************************************************************)
(* Bounds of the model.                                                    *)
(***************************************************************************)
\* nesting depth of the argument values fed to argument recovery
MaxNest == 3

(***************************************************************************)
(* String primitives of the JavaScript runtime used by the source.         *)
(***************************************************************************)
Min(a, b) == IF a <= b THEN a ELSE b

CharAt(s, i) == SubSeq(s, i, i)

\* String.prototype.slice(0, n)
SliceTo(s, n) == SubSeq(s, 1, Min(n, Len(s)))

startsWith(s, prefix) ==
    Len(s) >= Len(prefix) /\ SubSeq(s, 1, Len(prefix)) = prefix

endsWith(s, suffix) ==
    Len(s) >= Len(suffix) /\ SubSeq(s, Len(s) - Len(suffix) + 1, Len(s)) = suffix

RECURSIVE Repeat(_, _)
\* String.prototype.repeat
Repeat(c, n) == IF n <= 0 THEN "" ELSE c \o Repeat(c, n - 1)

\* the white space String.prototype.trim strips (of the characters the model uses)
TrimWhitespace == {" ", "\t", "\n", "\r", "\f"}

\* the white space the JSON grammar allows around tokens
JsonWhitespace == {" ", "\t", "\n", "\r"}

RECURSIVE TrimStart(_)
TrimStart(s) ==
    IF Len(s) > 0 /\ CharAt(s, 1) \in TrimWhitespace THEN TrimStart(Tail(s)) ELSE s

RECURSIVE TrimEnd(_)
TrimEnd(s) ==
    IF Len(s) > 0 /\ CharAt(s, Len(s)) \in TrimWhitespace
    THEN TrimEnd(SubSeq(s, 1, Len(s) - 1))
    ELSE s

\* String.prototype.trim
trim(s) == TrimEnd(TrimStart(s))

DigitChars == "0123456789"

Digits == {CharAt(DigitChars, i) : i \in 1..10}

DigitValue(c) == CHOOSE d \in 0..9 : CharAt(DigitChars, d + 1) = c

RECURSIVE NatToString(_)
NatToString(n) ==
    IF n < 10 THEN CharAt(DigitChars, n + 1)
    ELSE NatToString(n \div 10) \o CharAt(DigitChars, (n % 10) + 1)

\* Number.prototype.toString for integers
NumberToString(n) == IF n < 0 THEN "-" \o NatToString(0 - n) ELSE NatToString(n)

\* String.prototype.padStart(width, fill) with a one-character fill
padStart(s, width, fill) ==
    IF Len(s) >= width THEN s ELSE Repeat(fill, width - Len(s)) \o s

(***************************************************************************)
(* JavaScript values.                                                      *)
(***************************************************************************)
Undefined == [t |-> "undefined", v |-> 0]
JNull == [t |-> "null", v |-> 0]
JBool(b) == [t |-> "boolean", v |-> b]
JNum(n) == [t |-> "number", v |-> n]
JStr(s) == [t |-> "string", v |-> s]
\* an array: the sequence of its elements
JArr(items) == [t |-> "array", v |-> items]
\* a plain object: its own enumerable properties [k, v] in insertion order
JObj(entries) == [t |-> "object", v |-> entries]

Entry(key, value) == [k |-> key, v |-> value]

\* typeof x === 'object' && x !== null
IsNonNullObject(x) == x.t \in {"object", "array"}

\* x == null: what ?? and ?. treat as missing
IsNullish(x) == x.t \in {"undefined", "null"}

\* the truthiness test of `x ? a : b`
IsFalsy(x) ==
    \/ x.t \in {"undefined", "null"}
    \/ x.t = "boolean" /\ x.v = FALSE
    \/ x.t = "number" /\ x.v = 0
    \/ x.t = "string" /\ x.v = ""

HasOwn(obj, key) == \E i \in 1..Len(obj.v) : obj.v[i].k = key

\* x[key] for a key that no prototype defines
GetProp(x, key) ==
    IF x.t = "object" /\ HasOwn(x, key)
    THEN (x.v[CHOOSE i \in 1..Len(x.v) : x.v[i].k = key]).v
    ELSE Undefined

\* obj[key] = value on a plain object: an existing key keeps its position
SetProp(obj, key, value) ==
    IF HasOwn(obj, key)
    THEN JObj([i \in 1..Len(obj.v) |->
                 IF obj.v[i].k = key THEN Entry(key, value) ELSE obj.v[i]])
    ELSE JObj(Append(obj.v, Entry(key, value)))

(***************************************************************************)
(* JSON.stringify.                                                         *)
(***************************************************************************)
EscapeChar(c) ==
    CASE c = "\"" -> "\\\""
      [] c = "\\" -> "\\\\"
      [] c = "\n" -> "\\n"
      [] c = "\t" -> "\\t"
      [] c = "\r" -> "\\r"
      [] c = "\f" -> "\\f"
      [] OTHER -> c

RECURSIVE EscapeString(_)
EscapeString(s) ==
    IF Len(s) = 0 THEN "" ELSE EscapeChar(CharAt(s, 1)) \o EscapeString(Tail(s))

Quote(s) == "\"" \o EscapeString(s) \o "\""

RECURSIVE Serialize(_)
RECURSIVE SerializeItems(_, _)
RECURSIVE SerializeEntries(_, _)

\* the JSON text of a value other than undefined
Serialize(x) ==
    CASE x.t = "null" -> "null"
      [] x.t = "undefined" -> "null"
      [] x.t = "boolean" -> IF x.v THEN "true" ELSE "false"
      [] x.t = "number" -> NumberToString(x.v)
      [] x.t = "string" -> Quote(x.v)
      [] x.t = "array" -> "[" \o SerializeItems(x.v, 1) \o "]"
      [] x.t = "object" ->
            "{" \o SerializeEntries(SelectSeq(x.v, LAMBDA e : e.v.t # "undefined"), 1) \o "}"

SerializeItems(items, i) ==
    IF i > Len(items) THEN ""
    ELSE (IF i > 1 THEN "," ELSE "") \o Serialize(items[i]) \o SerializeItems(items, i + 1)

SerializeEntries(entries, i) ==
    IF i > Len(entries) THEN ""
    ELSE (IF i > 1 THEN "," ELSE "")
         \o Quote(entries[i].k) \o ":" \o Serialize(entries[i].v)
         \o SerializeEntries(entries, i + 1)

\* JSON.stringify(x): a string value, or undefined for undefined
JSONstringify(x) == IF x.t = "undefined" THEN Undefined ELSE JStr(Serialize(x))

(***************************************************************************)
(* JSON.parse: a recursive-descent reader of the JSON grammar.  A step     *)
(* returns [ok, val, pos]: whether it read something, what, and the index  *)
(* of the first character after it.  Numbers are integers; the strings fed *)
(* to the parser contain no fraction, exponent or \u escape.               *)
(***************************************************************************)
ParseFail == [ok |-> FALSE, val |-> Undefined, pos |-> 0]

ParseOk(value, next) == [ok |-> TRUE, val |-> value, pos |-> next]

RECURSIVE SkipWhitespace(_, _)
SkipWhitespace(s, i) ==
    IF i <= Len(s) /\ CharAt(s, i) \in JsonWhitespace THEN SkipWhitespace(s, i + 1) ELSE i

\* the character an escape sequence \c stands for, "" when \c is no escape
Unescape(c) ==
    CASE c = "\"" -> "\""
      [] c = "\\" -> "\\"
      [] c = "/" -> "/"
      [] c = "n" -> "\n"
      [] c = "t" -> "\t"
      [] c = "r" -> "\r"
      [] c = "f" -> "\f"
      [] OTHER -> ""

\* characters that may not appear unescaped inside a JSON string
ControlChars == {"\n", "\t", "\r", "\f"}

RECURSIVE ParseStringBody(_, _, _)
\* reads the characters after an opening quote up to the closing one
ParseStringBody(s, i, acc) ==
    IF i > Len(s) THEN ParseFail
    ELSE LET c == CharAt(s, i) IN
         CASE c = "\"" -> ParseOk(acc, i + 1)
           [] c = "\\" ->
                IF i + 1 > Len(s) \/ Unescape(CharAt(s, i + 1)) = "" THEN ParseFail
                ELSE ParseStringBody(s, i + 2, acc \o Unescape(CharAt(s, i + 1)))
           [] c \in ControlChars -> ParseFail
           [] OTHER -> ParseStringBody(s, i + 1, acc \o c)

RECURSIVE ParseDigits(_, _, _)
ParseDigits(s, i, acc) ==
    IF i <= Len(s) /\ CharAt(s, i) \in Digits
    THEN ParseDigits(s, i + 1, acc * 10 + DigitValue(CharAt(s, i)))
    ELSE ParseOk(acc, i)

\* -? ( 0 | [1-9][0-9]* )
ParseNumber(s, i) ==
    LET neg == CharAt(s, i) = "-"
        j == IF neg THEN i + 1 ELSE i
    IN  IF j > Len(s) \/ CharAt(s, j) \notin Digits THEN ParseFail
        ELSE LET r == IF CharAt(s, j) = "0" THEN ParseOk(0, j + 1) ELSE ParseDigits(s, j, 0)
             IN  ParseOk(JNum(IF neg THEN 0 - r.val ELSE r.val), r.pos)

ParseLiteral(s, i, word, value) ==
    IF i + Len(word) - 1 <= Len(s) /\ SubSeq(s, i, i + Len(word) - 1) = word
    THEN ParseOk(value, i + Len(word))
    ELSE ParseFail

RECURSIVE ParseValue(_, _)
RECURSIVE ParseElements(_, _, _)
RECURSIVE ParseMembers(_, _, _)

ParseValue(s, i0) ==
    LET i == SkipWhitespace(s, i0) IN
    IF i > Len(s) THEN ParseFail
    ELSE LET c == CharAt(s, i) IN
         CASE c = "{" ->
                LET j == SkipWhitespace(s, i + 1) IN
                IF j <= Len(s) /\ CharAt(s, j) = "}" THEN ParseOk(JObj(<<>>), j + 1)
                ELSE ParseMembers(s, j, JObj(<<>>))
           [] c = "[" ->
                LET j == SkipWhitespace(s, i + 1) IN
                IF j <= Len(s) /\ CharAt(s, j) = "]" THEN ParseOk(JArr(<<>>), j + 1)
                ELSE ParseElements(s, j, <<>>)
           [] c = "\"" ->
                LET r == ParseStringBody(s, i + 1, "") IN
                IF r.ok THEN ParseOk(JStr(r.val), r.pos) ELSE ParseFail
           [] c = "t" -> ParseLiteral(s, i, "true", JBool(TRUE))
           [] c = "f" -> ParseLiteral(s, i, "false", JBool(FALSE))
           [] c = "n" -> ParseLiteral(s, i, "null", JNull)
           [] c = "-" \/ c \in Digits -> ParseNumber(s, i)
           [] OTHER -> ParseFail

\* value ( , value )* ]
ParseElements(s, i, acc) ==
    LET r == ParseValue(s, i) IN
    IF ~r.ok THEN ParseFail
    ELSE LET j == SkipWhitespace(s, r.pos) IN
         IF j > Len(s) THEN ParseFail
         ELSE IF CharAt(s, j) = "," THEN ParseElements(s, j + 1, Append(acc, r.val))
         ELSE IF CharAt(s, j) = "]" THEN ParseOk(JArr(Append(acc, r.val)), j + 1)
         ELSE ParseFail

\* string : value ( , string : value )* }      (a repeated key keeps its last value)
ParseMembers(s, i0, acc) ==
    LET i == SkipWhitespace(s, i0) IN
    IF i > Len(s) \/ CharAt(s, i) # "\"" THEN ParseFail
    ELSE LET key == ParseStringBody(s, i + 1, "") IN
         IF ~key.ok THEN ParseFail
         ELSE LET c == SkipWhitespace(s, key.pos) IN
              IF c > Len(s) \/ CharAt(s, c) # ":" THEN ParseFail
              ELSE LET r == ParseValue(s, c + 1) IN
                   IF ~r.ok THEN ParseFail
                   ELSE LET j == SkipWhitespace(s, r.pos)
                            obj == SetProp(acc, key.val, r.val)
                        IN  IF j > Len(s) THEN ParseFail
                            ELSE IF CharAt(s, j) = "," THEN ParseMembers(s, j + 1, obj)
                            ELSE IF CharAt(s, j) = "}" THEN ParseOk(obj, j + 1)
                            ELSE ParseFail

\* JSON.parse(text): [ok |-> TRUE, val |-> the value], or ok = FALSE for a SyntaxError
JSONparse(text) ==
    LET r == ParseValue(text, 1) IN
    IF r.ok /\ SkipWhitespace(text, r.pos) > Len(text)
    THEN [ok |-> TRUE, val |-> r.val]
    ELSE [ok |-> FALSE, val |-> Undefined]

(***************************************************************************)
(* Argument recovery: deserializeParams (mcp/proxy.ts).                    *)
(***************************************************************************)
\* the bracket heuristic: the trimmed text is delimited by {} or by []
LooksLikeJson(text) ==
    LET trimmed == trim(text) IN
    \/ startsWith(trimmed, "{") /\ endsWith(trimmed, "}")
    \/ startsWith(trimmed, "[") /\ endsWith(trimmed, "]")

RECURSIVE deserializeParams(_)
RECURSIVE RecoverString(_)
RECURSIVE RecoverItem(_)

\* RecoverString also repairing the elements of an array it parsed
RecoverStringIntoArrays(value) ==
    IF LooksLikeJson(value.v)
    THEN LET parsed == JSONparse(value.v) IN
         IF parsed.ok /\ IsNonNullObject(parsed.val)
         THEN IF parsed.val.t = "array"
              THEN JArr([i \in 1..Len(parsed.val.v) |-> RecoverItem(parsed.val.v[i])])
              ELSE deserializeParams(parsed.val)
         ELSE value
    ELSE value

\* RecoverString losing a string that fails to parse
RecoverStringDropsFailure(value) ==
    IF LooksLikeJson(value.v)
    THEN LET parsed == JSONparse(value.v) IN
         IF parsed.ok
         THEN IF IsNonNullObject(parsed.val)
              THEN IF parsed.val.t = "array" THEN parsed.val ELSE deserializeParams(parsed.val)
              ELSE value
         ELSE Undefined
    ELSE value

\* RecoverString using a parsed object as it is, without repairing it
RecoverStringOneLevel(value) ==
    IF LooksLikeJson(value.v)
    THEN LET parsed == JSONparse(value.v) IN
         IF parsed.ok /\ IsNonNullObject(parsed.val) THEN parsed.val ELSE value
    ELSE value

\* RecoverItem using a parsed object as it is, without repairing it
RecoverItemShallow(item) ==
    IF item.t # "string" THEN item
    ELSE IF LooksLikeJson(item.v)
    THEN LET parsed == JSONparse(item.v) IN
         IF parsed.ok /\ IsNonNullObject(parsed.val) THEN parsed.val ELSE item
    ELSE item

\* the branch for a value that is a string
RecoverString(value) ==
    IF LooksLikeJson(value.v)
    THEN LET parsed == JSONparse(value.v) IN
         IF parsed.ok /\ IsNonNullObject(parsed.val)
         THEN IF parsed.val.t = "array" THEN parsed.val ELSE deserializeParams(parsed.val)
         ELSE value
    ELSE value

\* the callback mapped over the elements of a value that is an array
RecoverItem(item) ==
    IF item.t # "string" THEN item
    ELSE IF LooksLikeJson(item.v)
    THEN LET parsed == JSONparse(item.v) IN
         IF parsed.ok /\ IsNonNullObject(parsed.val)
         THEN IF parsed.val.t = "array" THEN parsed.val ELSE deserializeParams(parsed.val)
         ELSE item
    ELSE item

\* RecoverValue walking into values that are already plain objects
RecoverValueRewalk(value) ==
    CASE value.t = "string" -> RecoverString(value)
      [] value.t = "array" -> JArr([i \in 1..Len(value.v) |-> RecoverItem(value.v[i])])
      [] value.t = "object" -> deserializeParams(value)
      [] OTHER -> value

\* what the loop body stores under one key
RecoverValue(value) ==
    CASE value.t = "string" -> RecoverString(value)
      [] value.t = "array" -> JArr([i \in 1..Len(value.v) |-> RecoverItem(value.v[i])])
      [] OTHER -> value

deserializeParams(params) ==
    JObj([i \in 1..Len(params.v) |->
            Entry(params.v[i].k, RecoverValue(params.v[i].v))])

(***************************************************************************)
(* The API document.  openApiSpec.paths is an object path -> path item,    *)
(* a path item an object key -> operation; both are kept as the sequence   *)
(* of their entries in insertion order, the order Object.entries yields.   *)
(* An operation is the plain object of its fields.                         *)
(***************************************************************************)
\* the entries (path, key, operation) in the order of the two nested loops
OperationEntries(doc) ==
    LET RECURSIVE Flatten(_)
        Flatten(i) ==
            IF i > Len(doc.paths) THEN <<>>
            ELSE [j \in 1..Len(doc.paths[i].item) |->
                    [path |-> doc.paths[i].path,
                     method |-> doc.paths[i].item[j].key,
                     operation |-> doc.paths[i].item[j].operation]]
                 \o Flatten(i + 1)
    IN  Flatten(1)

UpperChars == "ABCDEFGHIJKLMNOPQRSTUVWXYZ"
LowerChars == "abcdefghijklmnopqrstuvwxyz"

LowerChar(c) ==
    IF \E i \in 1..Len(UpperChars) : CharAt(UpperChars, i) = c
    THEN CharAt(LowerChars, CHOOSE i \in 1..Len(UpperChars) : CharAt(UpperChars, i) = c)
    ELSE c

RECURSIVE toLowerCase(_)
toLowerCase(s) == IF Len(s) = 0 THEN "" ELSE LowerChar(CharAt(s, 1)) \o toLowerCase(Tail(s))

\* isOperation taking every HTTP method for an operation verb
isOperationAnyVerb(method) ==
    toLowerCase(method) \in {"get", "post", "put", "delete", "patch", "head", "options", "trace"}

isOperation(method) == toLowerCase(method) \in {"get", "post", "put", "delete", "patch"}

(***************************************************************************)
(* Tool naming (openapi/parser.ts).                                        *)
(***************************************************************************)
\* the longest name ensureUniqueName leaves alone
MaxNameLength == 64
\* the characters ensureUniqueName reserves for the suffix
SuffixReserve == 5
\* the width generateUniqueSuffix pads the counter to
SuffixWidth == 4

\* this.nameCounter += 1; the counter padded with zeros
generateUniqueSuffix(counter) ==
    [nameCounter |-> counter + 1,
     suffix |-> padStart(NumberToString(counter + 1), SuffixWidth, "0")]

\* ensureUniqueName reserving one character too few for the suffix
ensureUniqueNameShortReserve(name, counter) ==
    IF Len(name) <= MaxNameLength
    THEN [name |-> name, nameCounter |-> counter]
    ELSE LET unique == generateUniqueSuffix(counter)
         IN  [name |-> SliceTo(name, MaxNameLength - SuffixWidth) \o "-" \o unique.suffix,
              nameCounter |-> unique.nameCounter]

\* the name given to a tool, and the counter afterwards
ensureUniqueName(name, counter) ==
    IF Len(name) <= MaxNameLength
    THEN [name |-> name, nameCounter |-> counter]
    ELSE LET truncatedName == SliceTo(name, MaxNameLength - SuffixReserve)
             unique == generateUniqueSuffix(counter)
         IN  [name |-> truncatedName \o "-" \o unique.suffix,
              nameCounter |-> unique.nameCounter]

\* the name part of convertOperationToMCPMethod: null for a missing identifier
convertOperationToMCPMethod(operation) ==
    IF IsFalsy(GetProp(operation, "operationId"))
    THEN JNull
    ELSE JObj(<<Entry("name", GetProp(operation, "operationId"))>>)

apiName == "API"

\* { ...operation, method, path }
LookupEntry(operation, method, path) ==
    SetProp(SetProp(operation, "method", JStr(method)), "path", JStr(path))

\* One catalogue build from counter value `counter`: the methods of tools.API,
\* the lookup object and the counter afterwards.
convertToMCPTools(doc, counter) ==
    LET entries == OperationEntries(doc)
        RECURSIVE Loop(_, _)
        Loop(i, acc) ==
            IF i > Len(entries) THEN acc
            ELSE LET e == entries[i]
                     mcpMethod == convertOperationToMCPMethod(e.operation)
                 IN  IF ~isOperation(e.method) \/ mcpMethod.t = "null"
                     THEN Loop(i + 1, acc)
                     ELSE LET unique == ensureUniqueName(GetProp(mcpMethod, "name").v,
                                                         acc.nameCounter)
                          IN  Loop(i + 1,
                                [methods |-> Append(acc.methods,
                                     SetProp(mcpMethod, "name", JStr(unique.name))),
                                 openApiLookup |->
                                     SetProp(acc.openApiLookup,
                                             apiName \o "-" \o unique.name,
                                             LookupEntry(e.operation, e.method, e.path)),
                                 nameCounter |-> unique.nameCounter])
    IN  Loop(1, [methods |-> <<>>, openApiLookup |-> JObj(<<>>), nameCounter |-> counter])

\* this.tools as the constructor stores it: { API: { methods } }
ToolsObject(methods) ==
    JObj(<<Entry(apiName, JObj(<<Entry("methods", JArr(methods))>>))>>)

(***************************************************************************)
(* The handlers of MCPProxy (mcp/proxy.ts).                                *)
(***************************************************************************)
\* the properties every object literal inherits from Object.prototype
ObjectPrototypeKeys ==
    {"constructor", "toString", "toLocaleString", "valueOf", "hasOwnProperty",
     "isPrototypeOf", "propertyIsEnumerable", "__proto__", "__defineGetter__",
     "__defineSetter__", "__lookupGetter__", "__lookupSetter__"}

\* obj[key] on an object literal: an own property, else what the prototype has
IndexObject(obj, key) ==
    IF HasOwn(obj, key) THEN GetProp(obj, key)
    ELSE IF key \in ObjectPrototypeKeys
    THEN (IF key = "__proto__" THEN JObj(<<>>) ELSE [t |-> "function", v |-> key])
    ELSE Undefined

\* a ?? b
Coalesce(a, b) == IF IsNullish(a) THEN b ELSE a

\* x?.key
OptionalProp(x, key) == IF IsNullish(x) THEN Undefined ELSE GetProp(x, key)

\* this.openApiLookup[operationId] ?? null
findOperation(lookup, operationId) == Coalesce(IndexObject(lookup, operationId), JNull)

\* the longest name list-tools exposes
ToolNameLimit == 64

truncateToolName(name) ==
    IF Len(name) <= ToolNameLimit THEN name ELSE SliceTo(name, ToolNameLimit)

\* the tool list-tools pushes for one method of one entry of this.tools
ListedTool(toolName, method, lookup) ==
    LET toolNameWithMethod == toolName \o "-" \o GetProp(method, "name").v
        truncatedToolName == truncateToolName(toolNameWithMethod)
        operation == IndexObject(lookup, toolNameWithMethod)
        httpMethod == LET m == OptionalProp(operation, "method") IN
                      IF m.t = "string" THEN JStr(toLowerCase(m.v)) ELSE Undefined
        isReadOnly == httpMethod = JStr("get")
    IN  JObj(<<Entry("name", JStr(truncatedToolName)),
               Entry("annotations",
                     JObj(<<Entry(IF isReadOnly THEN "readOnlyHint" ELSE "destructiveHint",
                                  JBool(TRUE))>>))>>)

\* the tools array of the list-tools response
ListToolsResponse(toolsObj, lookup) ==
    LET RECURSIVE PerTool(_)
        PerTool(i) ==
            IF i > Len(toolsObj.v) THEN <<>>
            ELSE LET methods == GetProp(toolsObj.v[i].v, "methods").v IN
                 [j \in 1..Len(methods) |-> ListedTool(toolsObj.v[i].k, methods[j], lookup)]
                 \o PerTool(i + 1)
    IN  JArr(PerTool(1))

\* a thrown value: an Error of some class, with the data an HttpClientError carries
ErrorValue(class, message, data) ==
    [t |-> "error", v |-> [class |-> class, message |-> message, data |-> data]]

\* { content: [ { type: 'text', text } ] }
TextContent(text) ==
    JObj(<<Entry("content",
                 JArr(<<JObj(<<Entry("type", JStr("text")), Entry("text", text)>>)>>))>>)

\* the own enumerable properties a spread ...x copies
SpreadEntries(x) ==
    CASE x.t = "object" -> x.v
      [] x.t = "array" -> [i \in 1..Len(x.v) |-> Entry(NumberToString(i - 1), x.v[i])]
      [] x.t = "string" -> [i \in 1..Len(x.v) |-> Entry(NumberToString(i - 1), JStr(CharAt(x.v, i)))]
      [] OTHER -> <<>>

\* { ...entries of obj, ...x }: integer keys enumerate first, a repeated key is overwritten
SpreadInto(obj, x) ==
    LET RECURSIVE Assign(_, _)
        Assign(acc, i) ==
            IF i > Len(SpreadEntries(x)) THEN acc
            ELSE Assign(SetProp(acc, SpreadEntries(x)[i].k, SpreadEntries(x)[i].v), i + 1)
    IN  IF x.t \in {"array", "string"} THEN JObj(SpreadEntries(x) \o obj.v) ELSE Assign(obj, 1)

\* typeof x === 'object'
TypeofObject(x) == x.t \in {"object", "array", "null"}

\* CallToolCatch taking error.data without looking for error.data.response.data
CallToolCatchDataOnly(error) ==
    IF error.v.class = "HttpClientError"
    THEN LET data == Coalesce(error.v.data, JObj(<<>>))
             body == SpreadInto(JObj(<<Entry("status", JStr("error"))>>),
                                IF TypeofObject(data) THEN data
                                ELSE JObj(<<Entry("data", data)>>))
         IN  [status |-> "returned", outcome |-> TextContent(JSONstringify(body))]
    ELSE [status |-> "rejected", outcome |-> error]

\* the catch block of the call-tool handler: what the handler settles with
CallToolCatch(error) ==
    IF error.v.class = "HttpClientError"
    THEN LET data == Coalesce(
                        Coalesce(OptionalProp(OptionalProp(error.v.data, "response"), "data"),
                                 error.v.data),
                        JObj(<<>>))
             body == SpreadInto(JObj(<<Entry("status", JStr("error"))>>),
                                IF TypeofObject(data) THEN data
                                ELSE JObj(<<Entry("data", data)>>))
         IN  [status |-> "returned", outcome |-> TextContent(JSONstringify(body))]
    ELSE [status |-> "rejected", outcome |-> error]

\* DeserializedParams handing the arguments on as they came
DeserializedParamsRaw(params) == IF IsFalsy(params) THEN JObj(<<>>) ELSE params

\* const deserializedParams = params ? deserializeParams(params) : {}
DeserializedParams(params) ==
    IF IsFalsy(params) THEN JObj(<<>>) ELSE deserializeParams(params)

\* the handler's success path after the awaited call
CallToolSuccess(response) ==
    [status |-> "returned", outcome |-> TextContent(JSONstringify(GetProp(response, "data")))]

\* the error the handler throws for a name findOperation does not find
MethodNotFound(name) == ErrorValue("Error", "Method " \o name \o " not found", Undefined)

(***************************************************************************)
(* Schema translation (openapi/parser.ts).  A schema is the plain object   *)
(* of its fields.  The translator reads the document, the schema cache of  *)
(* the converter and the caller's set of resolved references, and returns  *)
(* the translated schema with the cache and the set as it leaves them.     *)
(***************************************************************************)
\* the document as the object references are walked in
DocumentObject(doc) ==
    IF "components" \in DOMAIN doc
    THEN JObj(<<Entry("components", doc.components)>>)
    ELSE JObj(<<>>)

\* String.prototype.split on a one-character separator
SplitOn(text, separator) ==
    LET RECURSIVE Scan(_, _, _)
        Scan(i, part, parts) ==
            IF i > Len(text) THEN Append(parts, part)
            ELSE IF CharAt(text, i) = separator THEN Scan(i + 1, "", Append(parts, part))
            ELSE Scan(i + 1, part \o CharAt(text, i), parts)
    IN  Scan(1, "", <<>>)

\* the schema found at ref, or null, and the resolved set afterwards
internalResolveRef(doc, ref, resolvedRefs) ==
    IF ~startsWith(ref, "#/") \/ ref \in resolvedRefs
    THEN [schema |-> JNull, resolvedRefs |-> resolvedRefs]
    ELSE LET parts == SplitOn(SubSeq(ref, 3, Len(ref)), "/")
             RECURSIVE Walk(_, _)
             Walk(current, i) ==
                 IF i > Len(parts) THEN current
                 ELSE LET next == IF current.t = "object" THEN IndexObject(current, parts[i])
                                  ELSE Undefined
                      IN  IF IsFalsy(next) THEN JNull ELSE Walk(next, i + 1)
             found == Walk(DocumentObject(doc), 1)
         IN  IF found = JNull
             THEN [schema |-> JNull, resolvedRefs |-> resolvedRefs]
             ELSE [schema |-> found, resolvedRefs |-> resolvedRefs \cup {ref}]

ComponentsSchemasPrefix == "#/components/schemas/"
LocalDefsPrefix == "#/$defs/"

\* the prefix left as the document has it
RewriteRefKept(ref) == ref

\* ref.replace(/^#\/components\/schemas\//, '#/$defs/')
RewriteRef(ref) ==
    IF startsWith(ref, ComponentsSchemasPrefix)
    THEN LocalDefsPrefix \o SubSeq(ref, Len(ComponentsSchemasPrefix) + 1, Len(ref))
    ELSE ref

\* the local reference with every description dropped
LocalRefBare(schema) == JObj(<<Entry("$ref", JStr(RewriteRef(GetProp(schema, "$ref").v)))>>)

\* the node returned for a components/schemas reference that is preserved
LocalRef(schema) ==
    JObj(<<Entry("$ref", JStr(RewriteRef(GetProp(schema, "$ref").v)))>>
         \o (IF HasOwn(schema, "description")
             THEN <<Entry("description", GetProp(schema, "description"))>>
             ELSE <<>>))

binaryDesc == "absolute paths to local files"

\* the copied fields with format and description as the document has them
InlineFieldsCopied(schema) ==
    JObj(SelectSeq(schema.v, LAMBDA e : e.k \in {"type", "format", "description", "enum",
                                                  "const", "default"}))

\* the fields an inline schema copies before its children are translated
InlineFields(schema) ==
    LET Get(key) == GetProp(schema, key)
        Copy(key) == IF IsFalsy(Get(key)) THEN <<>> ELSE <<Entry(key, Get(key))>>
    IN  JObj(Copy("type")
             \o (IF Get("format") = JStr("binary")
                 THEN <<Entry("format", JStr("uri-reference")),
                        Entry("description",
                              IF IsFalsy(Get("description")) THEN JStr(binaryDesc)
                              ELSE JStr(Get("description").v \o " (" \o binaryDesc \o ")"))>>
                 ELSE Copy("format") \o Copy("description"))
             \o Copy("enum")
             \o (IF HasOwn(schema, "const") /\ Get("const") # Undefined
                 THEN <<Entry("const", Get("const"))>> ELSE <<>>)
             \o (IF Get("default") # Undefined THEN <<Entry("default", Get("default"))>> ELSE <<>>))

Translation(schema, resolvedRefs, cache) ==
    [schema |-> schema, resolvedRefs |-> resolvedRefs, schemaCache |-> cache]

\* F applied to the value, the value computed once
Bind(value, F(_)) == CHOOSE result \in {F(x) : x \in {value}} : TRUE

RECURSIVE convertOpenApiSchemaToJsonSchema(_, _, _, _, _)
RECURSIVE ConvertEach(_, _, _, _, _, _)

\* the schemas translated one after the other, each seeing what the former left
ConvertEach(doc, cache, schemas, resolvedRefs, resolveRefs, done) ==
    IF Len(done) = Len(schemas)
    THEN Translation(done, resolvedRefs, cache)
    ELSE Bind(convertOpenApiSchemaToJsonSchema(doc, cache, schemas[Len(done) + 1],
                                               resolvedRefs, resolveRefs),
              LAMBDA c : Bind(Append(done, c.schema),
                              LAMBDA next : ConvertEach(doc, c.schemaCache, schemas,
                                                        c.resolvedRefs, resolveRefs, next)))

\* schema.properties and schema.required of an object schema
ObjectProperties(doc, schema, s, resolveRefs) ==
    LET properties == GetProp(schema, "properties")
        withProperties ==
                 Bind(ConvertEach(doc, s.schemaCache,
                                  [i \in 1..Len(properties.v) |-> properties.v[i].v],
                                  s.resolvedRefs, resolveRefs, <<>>),
                      LAMBDA each :
                         Translation(
                            SetProp(SetProp(s.schema, "type", JStr("object")), "properties",
                                    JObj([i \in 1..Len(each.schema) |->
                                            Entry(properties.v[i].k, each.schema[i])])),
                            each.resolvedRefs, each.schemaCache))
    IN  IF GetProp(schema, "type") # JStr("object") THEN s
        ELSE Bind(IF IsFalsy(properties) THEN s ELSE withProperties,
                  LAMBDA placed :
                     IF IsFalsy(GetProp(schema, "required")) THEN placed
                     ELSE [placed EXCEPT !.schema = SetProp(placed.schema, "required",
                                                            GetProp(schema, "required"))])

\* schema.additionalProperties of an object schema
AdditionalProperties(doc, schema, s, resolveRefs) ==
    LET additional == GetProp(schema, "additionalProperties") IN
    IF GetProp(schema, "type") # JStr("object") THEN s
    ELSE IF additional.t \in {"object", "array"}
    THEN Bind(convertOpenApiSchemaToJsonSchema(doc, s.schemaCache, additional,
                                               s.resolvedRefs, resolveRefs),
              LAMBDA extra :
                 Translation(SetProp(s.schema, "additionalProperties", extra.schema),
                             extra.resolvedRefs, extra.schemaCache))
    ELSE [s EXCEPT !.schema = SetProp(s.schema, "additionalProperties",
                                      JBool(additional \in {JBool(TRUE), Undefined}))]

\* schema.items of an array schema
ArrayItems(doc, schema, s, resolveRefs) ==
    IF GetProp(schema, "type") = JStr("array") /\ ~IsFalsy(GetProp(schema, "items"))
    THEN Bind(convertOpenApiSchemaToJsonSchema(doc, s.schemaCache, GetProp(schema, "items"),
                                               s.resolvedRefs, resolveRefs),
              LAMBDA items :
                 Translation(SetProp(SetProp(s.schema, "type", JStr("array")),
                                     "items", items.schema),
                             items.resolvedRefs, items.schemaCache))
    ELSE s

\* schema.oneOf, schema.anyOf or schema.allOf
Composition(doc, schema, key, s, resolveRefs) ==
    IF IsFalsy(GetProp(schema, key)) THEN s
    ELSE Bind(ConvertEach(doc, s.schemaCache, GetProp(schema, key).v, s.resolvedRefs,
                          resolveRefs, <<>>),
              LAMBDA each :
                 Translation(SetProp(s.schema, key, JArr(each.schema)),
                             each.resolvedRefs, each.schemaCache))

\* a reference that is not preserved: the cached translation, or the target translated
\* and cached, or a local reference when the target is missing or being translated
ResolvedRef(doc, cache, schema, resolvedRefs, resolveRefs) ==
    LET ref == GetProp(schema, "$ref").v IN
    IF ~IsFalsy(IndexObject(cache, ref))
    THEN Translation(IndexObject(cache, ref), resolvedRefs, cache)
    ELSE Bind(internalResolveRef(doc, ref, resolvedRefs),
              LAMBDA resolved :
                 IF IsFalsy(resolved.schema)
                 THEN Translation(
                         JObj(<<Entry("$ref", JStr(RewriteRef(ref))),
                                Entry("description",
                                      IF HasOwn(schema, "description")
                                      THEN Coalesce(GetProp(schema, "description"), JStr(""))
                                      ELSE JStr(""))>>),
                         resolvedRefs, cache)
                 ELSE Bind(convertOpenApiSchemaToJsonSchema(
                              doc, cache, resolved.schema, resolved.resolvedRefs, resolveRefs),
                           LAMBDA converted :
                              Translation(converted.schema, converted.resolvedRefs,
                                          SetProp(converted.schemaCache, ref,
                                                  converted.schema))))

convertOpenApiSchemaToJsonSchema(doc, cache, schema, resolvedRefs, resolveRefs) ==
    IF HasOwn(schema, "$ref")
    THEN IF ~resolveRefs /\ startsWith(GetProp(schema, "$ref").v, ComponentsSchemasPrefix)
         THEN Translation(LocalRef(schema), resolvedRefs, cache)
         ELSE ResolvedRef(doc, cache, schema, resolvedRefs, resolveRefs)
    ELSE Bind(Translation(InlineFields(schema), resolvedRefs, cache), LAMBDA s0 :
         Bind(ObjectProperties(doc, schema, s0, resolveRefs), LAMBDA s1 :
         Bind(AdditionalProperties(doc, schema, s1, resolveRefs), LAMBDA s2 :
         Bind(ArrayItems(doc, schema, s2, resolveRefs), LAMBDA s3 :
         Bind(Composition(doc, schema, "oneOf", s3, resolveRefs), LAMBDA s4 :
         Bind(Composition(doc, schema, "anyOf", s4, resolveRefs), LAMBDA s5 :
              Composition(doc, schema, "allOf", s5, resolveRefs)))))))

\* the cache keys whose entry is the very object a preserved-mode translation of the
\* schema returned: the pointer of a reference that is not preserved, and the pointers
\* its target passes the translation on to
RECURSIVE SharedEntries(_, _, _, _)
SharedEntries(doc, cache, schema, seen) ==
    LET ref == GetProp(schema, "$ref").v
        target == internalResolveRef(doc, ref, {}).schema
    IN  IF ~HasOwn(schema, "$ref") \/ startsWith(ref, ComponentsSchemasPrefix)
           \/ ref \in seen \/ IsFalsy(IndexObject(cache, ref))
        THEN {}
        ELSE {ref} \cup (IF IsFalsy(target) THEN {}
                         ELSE SharedEntries(doc, cache, target, seen \cup {ref}))

\* returned[key] = value, seen through every cache entry that is the returned object
AssignShared(cache, entries, key, value) ==
    JObj([i \in 1..Len(cache.v) |->
            IF cache.v[i].k \in entries
            THEN Entry(cache.v[i].k, SetProp(cache.v[i].v, key, value))
            ELSE cache.v[i]])

\* the $defs of a tool schema: every component schema, translated with a new set
convertComponentsToJsonSchema(doc, cache) ==
    LET schemas == GetProp(GetProp(DocumentObject(doc), "components"), "schemas")
        entries == IF schemas.t = "object" THEN schemas.v ELSE <<>>
        RECURSIVE Loop(_, _, _)
        Loop(i, defs, c) ==
            IF i > Len(entries) THEN [schema |-> defs, schemaCache |-> c]
            ELSE Bind(convertOpenApiSchemaToJsonSchema(doc, c, entries[i].v, {}, FALSE),
                      LAMBDA t : Bind(SetProp(defs, entries[i].k, t.schema),
                                      LAMBDA next : Loop(i + 1, next, t.schemaCache)))
    IN  Loop(1, JObj(<<>>), cache)

(***************************************************************************)
(* The schemas of a tool (openapi/parser.ts).                              *)
(***************************************************************************)
\* withStringFallback wrapping a schema of any shape
withStringFallbackAlways(schema) ==
    JObj(<<Entry("anyOf", JArr(<<schema, JObj(<<Entry("type", JStr("string"))>>)>>))>>)

\* a complex schema also accepts a string; the items of an array also a string or object
withStringFallback(schema) ==
    LET isComplex ==
            \/ GetProp(schema, "type") = JStr("object")
            \/ HasOwn(schema, "$ref")
            \/ HasOwn(schema, "anyOf")
            \/ HasOwn(schema, "oneOf")
            \/ HasOwn(schema, "allOf")
    IN  IF isComplex
        THEN JObj(<<Entry("anyOf", JArr(<<schema, JObj(<<Entry("type", JStr("string"))>>)>>))>>)
        ELSE IF GetProp(schema, "type") = JStr("array") /\ ~IsFalsy(GetProp(schema, "items"))
        THEN SetProp(schema, "items",
                JObj(<<Entry("anyOf",
                    JArr(<<GetProp(schema, "items"),
                           JObj(<<Entry("type", JStr("string"))>>),
                           JObj(<<Entry("type", JStr("object")),
                                  Entry("additionalProperties", JBool(TRUE))>>)>>))>>))
        ELSE schema

\* a parameter, request body or response given inline or by reference; null if unresolved
ResolveInline(doc, x) ==
    IF ~HasOwn(x, "$ref") THEN x
    ELSE internalResolveRef(doc, GetProp(x, "$ref").v, {}).schema

resolveParameter(doc, param) ==
    LET resolved == ResolveInline(doc, param) IN
    IF ~HasOwn(param, "$ref") THEN param
    ELSE IF ~IsFalsy(resolved) /\ ~IsFalsy(GetProp(resolved, "name")) THEN resolved
    ELSE JNull

resolveRequestBody(doc, body) == ResolveInline(doc, body)

resolveResponse(doc, response) == ResolveInline(doc, response)

\* inputSchema.properties[name] = ...; inputSchema.required.push(...names)
PutProperty(inputSchema, name, schema) ==
    SetProp(inputSchema, "properties", SetProp(GetProp(inputSchema, "properties"), name, schema))

PushRequired(inputSchema, names) ==
    SetProp(inputSchema, "required", JArr(GetProp(inputSchema, "required").v \o names))

\* the properties of a translated object schema merged in, each with the fallback
MergeProperties(inputSchema, schema) ==
    LET properties == GetProp(schema, "properties").v
        RECURSIVE Loop(_, _)
        Loop(i, acc) ==
            IF i > Len(properties) THEN acc
            ELSE Bind(PutProperty(acc, properties[i].k, withStringFallback(properties[i].v)),
                      LAMBDA next : Loop(i + 1, next))
    IN  Bind(Loop(1, inputSchema),
             LAMBDA merged :
                IF IsFalsy(GetProp(schema, "required")) THEN merged
                ELSE PushRequired(merged, GetProp(schema, "required").v))

HasProperties(schema) ==
    GetProp(schema, "type") = JStr("object") /\ ~IsFalsy(GetProp(schema, "properties"))

\* one parameter with a schema placed in the input schema
PlaceParameter(paramObj, translation, inputSchema) ==
    LET schema == IF IsFalsy(GetProp(paramObj, "description")) THEN translation
                  ELSE SetProp(translation, "description", GetProp(paramObj, "description"))
    IN  Bind(PutProperty(inputSchema, GetProp(paramObj, "name").v, withStringFallback(schema)),
             LAMBDA placed :
                IF IsFalsy(GetProp(paramObj, "required")) THEN placed
                ELSE PushRequired(placed, <<GetProp(paramObj, "name")>>))

\* schema.description = paramObj.description, when schema is an object of the cache
DescribeShared(doc, paramObj, cache) ==
    IF IsFalsy(GetProp(paramObj, "description")) THEN cache
    ELSE AssignShared(cache, SharedEntries(doc, cache, GetProp(paramObj, "schema"), {}),
                      "description", GetProp(paramObj, "description"))

\* the parameters of the operation added to the input schema
AddParameters(doc, operation, inputSchema, cache) ==
    LET parameters == IF IsFalsy(GetProp(operation, "parameters")) THEN <<>>
                      ELSE GetProp(operation, "parameters").v
        RECURSIVE Loop(_, _, _)
        Loop(i, acc, c) ==
            IF i > Len(parameters) THEN [schema |-> acc, schemaCache |-> c]
            ELSE Bind(resolveParameter(doc, parameters[i]),
                      LAMBDA paramObj :
                         IF IsFalsy(paramObj) \/ IsFalsy(GetProp(paramObj, "schema"))
                         THEN Loop(i + 1, acc, c)
                         ELSE Bind(convertOpenApiSchemaToJsonSchema(
                                      doc, c, GetProp(paramObj, "schema"), {}, FALSE),
                                   LAMBDA t :
                                      Bind(PlaceParameter(paramObj, t.schema, acc),
                                           LAMBDA next :
                                              Loop(i + 1, next,
                                                   DescribeShared(doc, paramObj,
                                                                  t.schemaCache)))))
    IN  Loop(1, inputSchema, cache)

\* the body schema of a content type, translated, added to the input schema
AddBodySchema(doc, media, inputSchema, cache, synthetic) ==
    Bind(convertOpenApiSchemaToJsonSchema(doc, cache, media, {}, FALSE),
         LAMBDA t :
            [schema |-> IF HasProperties(t.schema)
                        THEN MergeProperties(inputSchema, t.schema)
                        ELSE IF synthetic
                        THEN PushRequired(PutProperty(inputSchema, "body",
                                                      withStringFallback(t.schema)),
                                          <<JStr("body")>>)
                        ELSE inputSchema,
             schemaCache |-> t.schemaCache])

\* the request body of the operation added to the input schema
AddRequestBody(doc, operation, inputSchema, cache) ==
    LET bodyObj == IF IsFalsy(GetProp(operation, "requestBody")) THEN JNull
                   ELSE resolveRequestBody(doc, GetProp(operation, "requestBody"))
        content == OptionalProp(bodyObj, "content")
        Media(type) == OptionalProp(GetProp(content, type), "schema")
    IN  IF IsFalsy(content) THEN [schema |-> inputSchema, schemaCache |-> cache]
        ELSE IF ~IsFalsy(Media("multipart/form-data"))
        THEN AddBodySchema(doc, Media("multipart/form-data"), inputSchema, cache, FALSE)
        ELSE IF ~IsFalsy(Media("application/json"))
        THEN AddBodySchema(doc, Media("application/json"), inputSchema, cache, TRUE)
        ELSE [schema |-> inputSchema, schemaCache |-> cache]

\* a || b
OrElse(a, b) == IF IsFalsy(a) THEN b ELSE a

\* the return schema of a JSON response: the translation, $defs and a description
JsonReturnSchema(doc, cache, jsonSchema, description) ==
    Bind(convertOpenApiSchemaToJsonSchema(doc, cache, jsonSchema, {}, FALSE), LAMBDA t :
    Bind(convertComponentsToJsonSchema(doc, t.schemaCache), LAMBDA defs :
    Bind(SetProp(t.schema, "$defs", defs.schema), LAMBDA returnSchema :
    Bind(SharedEntries(doc, defs.schemaCache, jsonSchema, {}), LAMBDA shared :
    Bind(AssignShared(defs.schemaCache, shared, "$defs", defs.schema), LAMBDA c :
         IF ~IsFalsy(description) /\ IsFalsy(GetProp(returnSchema, "description"))
         THEN [schema |-> SetProp(returnSchema, "description", description),
               schemaCache |-> AssignShared(c, shared, "description", description)]
         ELSE [schema |-> returnSchema, schemaCache |-> c])))))

\* the return schema of an operation, or null
extractResponseType(doc, cache, responses) ==
    LET successResponse == OrElse(OptionalProp(responses, "200"),
                           OrElse(OptionalProp(responses, "201"),
                           OrElse(OptionalProp(responses, "202"),
                                  OptionalProp(responses, "204"))))
        responseObj == IF IsFalsy(successResponse) THEN JNull
                       ELSE resolveResponse(doc, successResponse)
        content == OptionalProp(responseObj, "content")
        description == GetProp(responseObj, "description")
        jsonSchema == OptionalProp(GetProp(content, "application/json"), "schema")
    IN  IF IsFalsy(content) THEN [schema |-> JNull, schemaCache |-> cache]
        ELSE IF ~IsFalsy(jsonSchema)
        THEN JsonReturnSchema(doc, cache, jsonSchema, description)
        ELSE IF ~IsFalsy(GetProp(content, "image/png")) \/ ~IsFalsy(GetProp(content, "image/jpeg"))
        THEN [schema |-> JObj(<<Entry("type", JStr("string")),
                                Entry("format", JStr("binary")),
                                Entry("description", OrElse(description, JStr("")))>>),
              schemaCache |-> cache]
        ELSE [schema |-> JObj(<<Entry("type", JStr("string")),
                                Entry("description", OrElse(description, JStr("")))>>),
              schemaCache |-> cache]

\* the tool method built from an operation with an identifier, or null, and the cache
NewToolMethod(doc, cache, operation) ==
    IF IsFalsy(GetProp(operation, "operationId"))
    THEN [method |-> JNull, schemaCache |-> cache]
    ELSE Bind(convertComponentsToJsonSchema(doc, cache), LAMBDA defs :
         Bind(AddParameters(doc, operation,
                            JObj(<<Entry("$defs", defs.schema),
                                   Entry("type", JStr("object")),
                                   Entry("properties", JObj(<<>>)),
                                   Entry("required", JArr(<<>>))>>),
                            defs.schemaCache), LAMBDA withParameters :
         Bind(AddRequestBody(doc, operation, withParameters.schema,
                             withParameters.schemaCache), LAMBDA inputSchema :
         Bind(extractResponseType(doc, inputSchema.schemaCache,
                                  GetProp(operation, "responses")), LAMBDA returnSchema :
              [method |->
                  JObj(<<Entry("name", GetProp(operation, "operationId")),
                         Entry("inputSchema", inputSchema.schema)>>
                       \o (IF IsFalsy(returnSchema.schema) THEN <<>>
                           ELSE <<Entry("returnSchema", returnSchema.schema)>>)),
               schemaCache |-> returnSchema.schemaCache]))))

(***************************************************************************)
(* Inputs: API documents.                                                  *)
(***************************************************************************)
\* the largest number of path/method slots of a document given to a converter
MaxOps == 3
\* the same for the documents given to a proxy
MaxProxyOps == 2
\* convertToMCPTools is not run again once the counter has reached this value
MaxCounter == 4
\* the number of call-tool requests of one run
MaxCalls == 1
\* the number of call-tool requests of a run with requests in flight together
MaxInFlight == 2

OperationWithId(id) == JObj(<<Entry("operationId", JStr(id))>>)

OperationWithoutId == JObj(<<Entry("summary", JStr("unnamed"))>>)

\* operation identifiers around the limits 59, 60 and 64
OperationIds ==
    {"getTest", Repeat("a", 60), Repeat("a", 61), Repeat("a", 64), Repeat("a", 65),
     Repeat("a", 59) \o "bbbbbbb", Repeat("a", 59) \o "-0001"}

\* what a slot of a document holds: nothing, or an operation
SlotChoices == {Undefined, OperationWithoutId} \cup {OperationWithId(id) : id \in OperationIds}

ProxySlotChoices ==
    {Undefined} \cup {OperationWithId(id) : id \in {"getTest", Repeat("a", 61), Repeat("a", 65)}}

\* slots 2k-1 and 2k are the get and the post operation of path /p<k>
SlotPath(i) == "/p" \o NumberToString((i + 1) \div 2)

SlotKey(i) == IF i % 2 = 1 THEN "get" ELSE "post"

\* the document whose slot i holds f[i], for i in 1..n
DocumentOf(f, n) ==
    LET Item(k) ==
            LET slots == SelectSeq(<<2 * k - 1, 2 * k>>,
                                   LAMBDA i : i <= n /\ f[i] # Undefined)
            IN  [j \in 1..Len(slots) |-> [key |-> SlotKey(slots[j]), operation |-> f[slots[j]]]]
        all == [k \in 1..((n + 1) \div 2) |-> [path |-> SlotPath(2 * k), item |-> Item(k)]]
    IN  [paths |-> SelectSeq(all, LAMBDA p : Len(p.item) > 0)]

Documents(choices, n) == {DocumentOf(f, n) : f \in [1..n -> choices]}

\* the keys a path item may hold: the five verbs, a verb in capitals, other keys
FirstItemKeys == {"get", "post", "put", "GET", "head"}
SecondItemKeys == {"delete", "patch", "parameters"}

\* what entry i of a path item may hold: no identifier, an empty one, a proper one
KeyOperations(i) ==
    {OperationWithoutId, OperationWithId(""), OperationWithId("op" \o NumberToString(i))}

\* the documents with two entries under /p1 and one under /p2
KeyDocuments ==
    {[paths |-> <<[path |-> "/p1",
                   item |-> <<[key |-> k[1], operation |-> o1],
                              [key |-> k[2], operation |-> o2]>>],
                  [path |-> "/p2", item |-> <<[key |-> k[3], operation |-> o3]>>]>>] :
        k \in {f \in [1..3 -> FirstItemKeys \cup SecondItemKeys] :
                  f[1] \in FirstItemKeys /\ f[2] \in FirstItemKeys \ {f[1]}
                     /\ f[3] \in SecondItemKeys},
        o1 \in KeyOperations(1), o2 \in KeyOperations(2), o3 \in KeyOperations(3)}

\* the documents whose every slot holds an operation with a 65-character identifier
LongDocuments == Documents({OperationWithId(Repeat("a", 65))}, MaxOps)

EmptyDocument == [paths |-> <<>>]

(***************************************************************************)
(* Inputs: argument values, built up to a nesting depth.                   *)
(***************************************************************************)
Atoms ==
    {JNull, JBool(TRUE), JNum(1), JStr("plain text"), JStr("{ not valid json }"),
     JStr("\f[]"), JStr(" {} "), JObj(<<>>), JArr(<<>>)}

RECURSIVE Values(_)
Values(n) ==
    IF n = 0 THEN Atoms
    ELSE LET prev == Values(n - 1) IN
         prev
         \cup {JObj(<<Entry("a", x)>>) : x \in prev}
         \cup {JArr(<<x>>) : x \in prev}
         \cup {JArr(<<x, JObj(<<Entry("b", JNum(2))>>), JStr("plain")>>) : x \in prev}
         \cup {JSONstringify(x) : x \in {y \in prev : IsNonNullObject(y)}}

(***************************************************************************)
(* Inputs: call-tool requests and the outcomes of the execution call.      *)
(***************************************************************************)
CallArguments ==
    {Undefined, JNull,
     JObj(<<Entry("new_parent", JSONstringify(JObj(<<Entry("page_id", JStr("p1"))>>))),
            Entry("query", JStr("hello world"))>>)}

ResponseData == {JObj(<<Entry("message", JStr("success"))>>), JArr(<<JStr("{}"), JNum(1)>>)}

Response(data) == JObj(<<Entry("data", data), Entry("status", JNum(200))>>)

\* the data field of an HttpClientError
HttpErrorData ==
    {Undefined, JNull, JStr("Not Found"),
     JObj(<<Entry("code", JStr("unauthorized"))>>),
     JObj(<<Entry("status", JNum(400)), Entry("code", JStr("validation_error"))>>),
     JObj(<<Entry("response", JObj(<<Entry("data", JObj(<<Entry("message", JStr("bad"))>>))>>))>>),
     JObj(<<Entry("response", JObj(<<Entry("data", JStr("bad gateway"))>>))>>),
     JObj(<<Entry("response", JObj(<<Entry("data", JNull)>>))>>),
     JArr(<<JStr("e1"), JStr("e2")>>)}

\* failures that are no HttpClientError
OtherErrors ==
    {ErrorValue("TypeError", "fetch failed", Undefined),
     ErrorValue("Error", "Operation not found", JObj(<<Entry("code", JStr("x"))>>))}

(***************************************************************************)
(* Inputs: schemas, component sections and operations.                     *)
(***************************************************************************)
TypeOnly(type) == JObj(<<Entry("type", JStr(type))>>)

RefTo(pointer) == JObj(<<Entry("$ref", JStr(pointer))>>)

SchemaRef(name) == RefTo(ComponentsSchemasPrefix \o name)

BinaryFile == JObj(<<Entry("type", JStr("string")), Entry("format", JStr("binary"))>>)

BinaryPhoto ==
    JObj(<<Entry("type", JStr("string")), Entry("format", JStr("binary")),
           Entry("description", JStr("Photo"))>>)

ObjectOf(properties) ==
    JObj(<<Entry("type", JStr("object")), Entry("properties", JObj(properties))>>)

ArrayOf(items) == JObj(<<Entry("type", JStr("array")), Entry("items", items)>>)

\* the component sections of the documents
CyclicComponents ==
    JObj(<<Entry("schemas",
              JObj(<<Entry("A", SetProp(ObjectOf(<<Entry("b", SchemaRef("B"))>>),
                                        "description", JStr("schema A"))),
                     Entry("B", ObjectOf(<<Entry("a", SetProp(SchemaRef("A"), "description",
                                                              JStr("back to A")))>>))>>)),
           Entry("parameters",
              JObj(<<Entry("limit", JObj(<<Entry("name", JStr("limit")),
                                           Entry("in", JStr("query")),
                                           Entry("schema", TypeOnly("integer"))>>))>>)),
           Entry("responses",
              JObj(<<Entry("Ok", JObj(<<Entry("description", JStr("An A")),
                                        Entry("content",
                                           JObj(<<Entry("application/json",
                                                    JObj(<<Entry("schema", SchemaRef("A"))>>))>>))>>))>>))>>)

SelfComponents ==
    JObj(<<Entry("schemas",
              JObj(<<Entry("A", ObjectOf(<<Entry("next", SchemaRef("A")),
                                           Entry("label", TypeOnly("string"))>>))>>))>>)

DanglingComponents ==
    JObj(<<Entry("schemas",
              JObj(<<Entry("A", ObjectOf(<<Entry("m", SchemaRef("Missing"))>>))>>))>>)

FileComponents ==
    JObj(<<Entry("schemas",
              JObj(<<Entry("A", ObjectOf(<<Entry("file", BinaryPhoto)>>)),
                     Entry("File", BinaryFile)>>))>>)

SchemaDocuments ==
    {EmptyDocument}
    \cup {[paths |-> <<>>, components |-> c] :
            c \in {CyclicComponents, SelfComponents, DanglingComponents, FileComponents}}

\* the schemas handed to the translator
SchemaNodes ==
    {TypeOnly("string"), BinaryFile, BinaryPhoto,
     JObj(<<Entry("type", JStr("string")), Entry("format", JStr("binary")),
            Entry("description", JStr(""))>>),
     JObj(<<Entry("type", JStr("string")), Entry("format", JStr("date")),
            Entry("description", JStr("a day"))>>),
     SetProp(ObjectOf(<<Entry("file", BinaryPhoto), Entry("name", TypeOnly("string"))>>),
             "required", JArr(<<JStr("file")>>)),
     ArrayOf(BinaryFile),
     JObj(<<Entry("oneOf", JArr(<<BinaryFile,
                                  ObjectOf(<<Entry("files", ArrayOf(BinaryPhoto))>>)>>))>>),
     JObj(<<Entry("allOf", JArr(<<SchemaRef("A"),
                                  JObj(<<Entry("anyOf", JArr(<<BinaryFile>>))>>)>>))>>),
     SetProp(TypeOnly("object"), "additionalProperties", BinaryFile),
     JObj(<<Entry("properties", JObj(<<Entry("file", BinaryFile)>>))>>),
     SchemaRef("A"),
     SetProp(SchemaRef("A"), "description", JStr("site")),
     SetProp(SchemaRef("A"), "description", JStr("")),
     SchemaRef("Missing"),
     RefTo("#/components/parameters/limit/schema")}

Parameter(name, schema) == JObj(<<Entry("name", JStr(name)), Entry("schema", schema)>>)

\* the parameter lists of the operations
ParameterLists ==
    {Undefined,
     JArr(<<SetProp(Parameter("id", TypeOnly("string")), "required", JBool(TRUE)),
            SetProp(Parameter("filter", ObjectOf(<<Entry("x", TypeOnly("string"))>>)),
                    "description", JStr("Filter"))>>),
     JArr(<<Parameter("tags", ArrayOf(TypeOnly("string"))),
            Parameter("ref", SchemaRef("A")),
            Parameter("either", JObj(<<Entry("oneOf", JArr(<<TypeOnly("string"),
                                                             TypeOnly("integer")>>))>>)),
            Parameter("bare", TypeOnly("array"))>>),
     JArr(<<RefTo("#/components/parameters/limit"),
            RefTo("#/components/parameters/none"),
            JObj(<<Entry("name", JStr("noschema"))>>),
            Parameter("missing", SchemaRef("Missing"))>>)}

Content(type, schema) == JObj(<<Entry(type, JObj(<<Entry("schema", schema)>>))>>)

BodyOf(content) == JObj(<<Entry("content", content)>>)

FormSchema ==
    SetProp(ObjectOf(<<Entry("file", BinaryFile),
                       Entry("meta", ObjectOf(<<Entry("k", TypeOnly("string"))>>))>>),
            "required", JArr(<<JStr("file")>>))

JsonObjectSchema ==
    SetProp(ObjectOf(<<Entry("title", TypeOnly("string")),
                       Entry("parent", ObjectOf(<<Entry("page_id", TypeOnly("string"))>>)),
                       Entry("files", ArrayOf(BinaryFile))>>),
            "required", JArr(<<JStr("title")>>))

\* a body schema that requires a name a parameter has and a name it does not define
KeyedSchema ==
    SetProp(ObjectOf(<<Entry("id", TypeOnly("string"))>>),
            "required", JArr(<<JStr("id"), JStr("ghost")>>))

\* the request bodies of the operations
RequestBodies ==
    {Undefined,
     BodyOf(Content("application/json", JsonObjectSchema)),
     BodyOf(Content("application/json", KeyedSchema)),
     BodyOf(Content("application/json", ObjectOf(<<>>))),
     BodyOf(Content("application/json",
                    SetProp(TypeOnly("object"), "additionalProperties", JBool(TRUE)))),
     BodyOf(Content("application/json", ArrayOf(TypeOnly("string")))),
     BodyOf(Content("application/json", TypeOnly("string"))),
     BodyOf(Content("application/json", SchemaRef("A"))),
     BodyOf(JObj(Content("application/json", JsonObjectSchema).v
                 \o Content("multipart/form-data", FormSchema).v)),
     BodyOf(JObj(Content("application/json", TypeOnly("string")).v
                 \o Content("multipart/form-data", BinaryFile).v)),
     BodyOf(Content("text/plain", TypeOnly("string")))}

ResponseOf(description, content) ==
    JObj(<<Entry("description", JStr(description)), Entry("content", content)>>)

Described(description) == JObj(<<Entry("description", JStr(description))>>)

\* the responses objects of the operations
ResponseSets ==
    {Undefined,
     JObj(<<Entry("404", Described("Not found"))>>),
     JObj(<<Entry("200", ResponseOf("OK", Content("application/json",
                                                  ObjectOf(<<Entry("id", TypeOnly("string"))>>)))),
            Entry("404", Described("Not found"))>>),
     JObj(<<Entry("201", ResponseOf("Created", Content("application/json", SchemaRef("A")))),
            Entry("204", ResponseOf("Nothing", Content("text/plain", TypeOnly("string"))))>>),
     JObj(<<Entry("202", ResponseOf("Accepted", Content("text/plain", TypeOnly("string")))),
            Entry("204", ResponseOf("Nothing", Content("application/json", TypeOnly("string"))))>>),
     JObj(<<Entry("204", Described("No Content"))>>),
     JObj(<<Entry("200", ResponseOf("A picture", JObj(<<Entry("image/png", JObj(<<>>))>>)))>>),
     JObj(<<Entry("200", ResponseOf("A moving picture", JObj(<<Entry("image/gif", JObj(<<>>))>>)))>>),
     JObj(<<Entry("200", RefTo("#/components/responses/Ok"))>>),
     JObj(<<Entry("200",
               JObj(<<Entry("content",
                         Content("application/json",
                                 SetProp(TypeOnly("string"), "description", JStr("own"))))>>))>>)}

\* the operations handed to convertOperationToMCPMethod
SchemaOperations ==
    {JObj(<<Entry("operationId", JStr("op"))>>
          \o (IF p = Undefined THEN <<>> ELSE <<Entry("parameters", p)>>)
          \o (IF b = Undefined THEN <<>> ELSE <<Entry("requestBody", b)>>)
          \o (IF r = Undefined THEN <<>> ELSE <<Entry("responses", r)>>)) :
        p \in ParameterLists, b \in RequestBodies, r \in ResponseSets}
    \cup {OperationWithoutId}

(***************************************************************************)
(* State.                                                                  *)
(***************************************************************************)
VARIABLES
    openApiSpec,    \* the API document the converter was constructed with
    nameCounter,    \* OpenAPIToMCPConverter.nameCounter
    tools,          \* the tools object the latest convertToMCPTools returned
    openApiLookup,  \* the lookup object it returned with it
    listed,         \* the tools array of the latest list-tools response
    calls,          \* the call-tool requests so far: name, arguments, status, outcome
    executions,     \* the calls of httpClient.executeOperation so far
    subject,        \* a value handed to argument recovery
    args,           \* the argument mapping the latest deserializeParams call got
    recovered,      \* what that call returned
    schemaCache,    \* OpenAPIToMCPConverter.schemaCache
    callerRefs,     \* the set of resolved references a caller of the translator holds
    called,         \* the converter method called last
    node,           \* the schema the latest convertOpenApiSchemaToJsonSchema call got,
                    \* or the reference the latest internalResolveRef call was made for
    mode,           \* the resolveRefs argument of the latest translator call
    translated,     \* what the translator or the resolver returned
    operationArg,   \* the operation the latest convertOperationToMCPMethod call got
    method          \* what that call returned

vars == <<openApiSpec, nameCounter, tools, openApiLookup, listed, calls, executions,
          subject, args, recovered, schemaCache, callerRefs, called, node, mode, translated,
          operationArg, method>>

converterVars == <<openApiSpec, nameCounter, tools, openApiLookup>>
handlerVars == <<listed, calls, executions>>
recoveryVars == <<subject, args, recovered>>
schemaVars == <<schemaCache, callerRefs, called, node, mode, translated, operationArg, method>>

NoHandlerState == listed = Undefined /\ calls = <<>> /\ executions = <<>>
NoRecoveryState == subject = Undefined /\ args = Undefined /\ recovered = Undefined
NoSchemaState ==
    /\ schemaCache = JObj(<<>>) /\ callerRefs = {} /\ called = "constructor"
    /\ node = Undefined /\ mode = FALSE /\ translated = Undefined
    /\ operationArg = Undefined /\ method = Undefined

(***************************************************************************)
(* The converter on its own: new OpenAPIToMCPConverter(doc), then          *)
(* convertToMCPTools() any number of times.                                *)
(***************************************************************************)
ConverterInit(docs) ==
    /\ openApiSpec \in docs
    /\ nameCounter = 0
    /\ tools = Undefined
    /\ openApiLookup = Undefined
    /\ NoHandlerState
    /\ NoRecoveryState
    /\ NoSchemaState

ConvertToMCPTools(limit) ==
    /\ nameCounter < limit
    /\ LET built == convertToMCPTools(openApiSpec, nameCounter) IN
       /\ tools' = ToolsObject(built.methods)
       /\ openApiLookup' = built.openApiLookup
       /\ nameCounter' = built.nameCounter
    /\ UNCHANGED <<openApiSpec, handlerVars, recoveryVars, schemaVars>>

SpecConverter ==
    ConverterInit(Documents(SlotChoices, MaxOps)) /\ [][ConvertToMCPTools(MaxCounter)]_vars

\* the same converter, run until the counter needs more digits than the suffix pads to
SpecCounter ==
    ConverterInit(LongDocuments) /\ [][ConvertToMCPTools(10 ^ SuffixWidth)]_vars

\* the converter on documents with every kind of key under a path item
SpecKeys == ConverterInit(KeyDocuments) /\ [][ConvertToMCPTools(MaxCounter)]_vars

(***************************************************************************)
(* The proxy: the state after new MCPProxy(name, doc), then requests.      *)
(***************************************************************************)
ProxyInit(docs) ==
    /\ openApiSpec \in docs
    /\ LET built == convertToMCPTools(openApiSpec, 0) IN
       /\ tools = ToolsObject(built.methods)
       /\ openApiLookup = built.openApiLookup
       /\ nameCounter = built.nameCounter
    /\ NoHandlerState
    /\ NoRecoveryState
    /\ NoSchemaState

\* list-tools emptying the catalogue it has listed
ListToolsConsuming ==
    /\ listed' = ListToolsResponse(tools, openApiLookup)
    /\ tools' = ToolsObject(<<>>)
    /\ UNCHANGED <<openApiSpec, nameCounter, openApiLookup, calls, executions, recoveryVars,
                   schemaVars>>

ListTools ==
    /\ listed' = ListToolsResponse(tools, openApiLookup)
    /\ UNCHANGED <<converterVars, calls, executions, recoveryVars, schemaVars>>

\* the names a client may ask for: listed ones, registered ones and others
CallNames ==
    {"ghost", "constructor"}
    \cup {openApiLookup.v[i].k : i \in 1..Len(openApiLookup.v)}
    \cup {GetProp(t, "name").v : t \in {ListToolsResponse(tools, openApiLookup).v[i] :
                                         i \in 1..Len(ListToolsResponse(tools, openApiLookup).v)}}

\* the call-tool handler up to its await, while fewer than limit requests were made
CallToolWithin(limit, name, params) ==
    /\ Len(calls) < limit
    /\ LET operation == findOperation(openApiLookup, name) IN
       IF IsFalsy(operation)
       THEN /\ calls' = Append(calls, [name |-> name, arguments |-> params,
                                       status |-> "rejected", outcome |-> MethodNotFound(name)])
            /\ UNCHANGED executions
       ELSE /\ calls' = Append(calls, [name |-> name, arguments |-> params,
                                       status |-> "awaiting", outcome |-> Undefined])
            /\ executions' = Append(executions,
                                    [call |-> Len(calls) + 1, operation |-> operation,
                                     params |-> DeserializedParams(params),
                                     result |-> Undefined])
    /\ UNCHANGED <<converterVars, listed, recoveryVars, schemaVars>>

CallTool(name, params) == CallToolWithin(MaxCalls, name, params)

\* Settle answering every request that is awaiting its execution call
SettleEveryCall(c, result, settled) ==
    /\ calls' = [i \in 1..Len(calls) |->
                   IF calls[i].status = "awaiting"
                   THEN [calls[i] EXCEPT !.status = settled.status, !.outcome = settled.outcome]
                   ELSE calls[i]]
    /\ executions' = [e \in 1..Len(executions) |->
                        IF executions[e].call = c
                        THEN [executions[e] EXCEPT !.result = result]
                        ELSE executions[e]]

\* the executeOperation call of request c settles with `result`, the handler with `settled`
Settle(c, result, settled) ==
    /\ calls' = [calls EXCEPT ![c].status = settled.status, ![c].outcome = settled.outcome]
    /\ executions' = [e \in 1..Len(executions) |->
                        IF executions[e].call = c
                        THEN [executions[e] EXCEPT !.result = result]
                        ELSE executions[e]]

\* the awaited executeOperation call resolves
ExecuteResolves(c, response) ==
    /\ calls[c].status = "awaiting"
    /\ Settle(c, response, CallToolSuccess(response))
    /\ UNCHANGED <<converterVars, listed, recoveryVars, schemaVars>>

\* the awaited executeOperation call rejects
ExecuteRejects(c, error) ==
    /\ calls[c].status = "awaiting"
    /\ Settle(c, error, CallToolCatch(error))
    /\ UNCHANGED <<converterVars, listed, recoveryVars, schemaVars>>

\* Requests against the catalogue of any document: the arguments and the outcome
\* of the execution call are one of each kind.
Next ==
    \/ ListTools
    \/ \E name \in CallNames : CallTool(name, JObj(<<>>))
    \/ \E c \in 1..Len(calls) :
          ExecuteResolves(c, Response(JObj(<<Entry("message", JStr("success"))>>)))
    \/ \E c \in 1..Len(calls) :
          ExecuteRejects(c, ErrorValue("HttpClientError", "request failed", Undefined))
    \/ \E c \in 1..Len(calls) :
          ExecuteRejects(c, ErrorValue("TypeError", "fetch failed", Undefined))

Spec == ProxyInit(Documents(ProxySlotChoices, MaxProxyOps)) /\ [][Next]_vars

\* the documents of the call-tool runs: one operation, get /p1 getTest
CallDocuments == Documents({OperationWithId("getTest")}, 1)

\* Requests with every kind of argument and of execution outcome.
CallNext ==
    \/ ListTools
    \/ \E name \in CallNames, params \in CallArguments : CallTool(name, params)
    \/ \E c \in 1..Len(calls), data \in ResponseData : ExecuteResolves(c, Response(data))
    \/ \E c \in 1..Len(calls), data \in HttpErrorData :
          ExecuteRejects(c, ErrorValue("HttpClientError", "request failed", data))
    \/ \E c \in 1..Len(calls), error \in OtherErrors : ExecuteRejects(c, error)

SpecCall == ProxyInit(CallDocuments) /\ [][CallNext]_vars

\* Requests in flight together: each handler runs to its await without interruption,
\* and the execution calls settle in any order.
ConcurrentNext ==
    \/ \E name \in {"API-getTest", "ghost"},
          params \in {Undefined,
                      JObj(<<Entry("page", JSONstringify(JObj(<<Entry("id", JStr("p1"))>>)))>>)} :
          CallToolWithin(MaxInFlight, name, params)
    \/ \E c \in 1..Len(calls), data \in ResponseData : ExecuteResolves(c, Response(data))
    \/ \E c \in 1..Len(calls) :
          ExecuteRejects(c, ErrorValue("HttpClientError", "request failed",
                                       JObj(<<Entry("code", JStr("unauthorized"))>>)))
    \/ \E c \in 1..Len(calls) :
          ExecuteRejects(c, ErrorValue("TypeError", "fetch failed", Undefined))

SpecConcurrent == ProxyInit(CallDocuments) /\ [][ConcurrentNext]_vars

(***************************************************************************)
(* Argument recovery on its own: deserializeParams applied to { x: value } *)
(* and to { x: JSON.stringify(value) }.                                    *)
(***************************************************************************)
RecoverInit ==
    /\ openApiSpec = EmptyDocument
    /\ nameCounter = 0
    /\ tools = Undefined
    /\ openApiLookup = Undefined
    /\ NoHandlerState
    /\ subject \in Values(MaxNest)
    /\ args = Undefined
    /\ recovered = Undefined
    /\ NoSchemaState

Recover(params) ==
    /\ args' = params
    /\ recovered' = deserializeParams(params)
    /\ UNCHANGED <<converterVars, handlerVars, subject, schemaVars>>

RecoverDirect == Recover(JObj(<<Entry("x", subject)>>))

RecoverEncoded ==
    /\ IsNonNullObject(subject)
    /\ Recover(JObj(<<Entry("x", JSONstringify(subject))>>))

RecoverNext == RecoverDirect \/ RecoverEncoded

SpecRecover == RecoverInit /\ [][RecoverNext]_vars

(***************************************************************************)
(* The schema side of the converter: a converter on a document, its        *)
(* translator called with either mode and its method builder called with   *)
(* an operation of the document.                                           *)
(***************************************************************************)
SchemaInit ==
    /\ openApiSpec \in SchemaDocuments
    /\ nameCounter = 0
    /\ tools = Undefined
    /\ openApiLookup = Undefined
    /\ NoHandlerState
    /\ NoRecoveryState
    /\ NoSchemaState

\* convertOpenApiSchemaToJsonSchema(schema, resolvedRefs, resolveRefs)
Translate(schema, resolveRefs) ==
    /\ \E t \in {convertOpenApiSchemaToJsonSchema(openApiSpec, schemaCache, schema,
                                                  callerRefs, resolveRefs)} :
          /\ translated' = t.schema
          /\ schemaCache' = t.schemaCache
          /\ callerRefs' = t.resolvedRefs
    /\ called' = "convertOpenApiSchemaToJsonSchema"
    /\ node' = schema
    /\ mode' = resolveRefs
    /\ UNCHANGED <<converterVars, handlerVars, recoveryVars, operationArg, method>>

\* convertOperationToMCPMethod(operation, method, path)
ConvertOperation(op) ==
    /\ \E built \in {NewToolMethod(openApiSpec, schemaCache, op)} :
          /\ method' = built.method
          /\ schemaCache' = built.schemaCache
    /\ called' = "convertOperationToMCPMethod"
    /\ operationArg' = op
    /\ UNCHANGED <<converterVars, handlerVars, recoveryVars, callerRefs, node, mode, translated>>

TranslateNext ==
    \E schema \in SchemaNodes, resolveRefs \in BOOLEAN : Translate(schema, resolveRefs)

\* the translator called again and again on one converter
SpecTranslate == SchemaInit /\ [][TranslateNext]_vars

\* the schemas and operations of the runs that mix translations and method builds
MixedNodes ==
    {SchemaRef("A"), SchemaRef("B"), RefTo("#/components/parameters/limit/schema"),
     ObjectOf(<<Entry("b", SchemaRef("B"))>>), BinaryPhoto}

MixedOperations ==
    {JObj(<<Entry("operationId", JStr("list")),
            Entry("parameters",
                  JArr(<<SetProp(Parameter("limit",
                                           RefTo("#/components/parameters/limit/schema")),
                                 "description", JStr("Page size"))>>))>>),
     JObj(<<Entry("operationId", JStr("count")),
            Entry("responses",
                  JObj(<<Entry("200",
                            ResponseOf("How many",
                                       Content("application/json",
                                               RefTo("#/components/parameters/limit/schema"))))>>))>>),
     JObj(<<Entry("operationId", JStr("get")),
            Entry("parameters", JArr(<<Parameter("ref", SchemaRef("A"))>>))>>)}

\* convertOpenApiSchemaToJsonSchema(schema, new Set(), resolveRefs)
TranslateAfresh(schema, resolveRefs) ==
    /\ \E t \in {convertOpenApiSchemaToJsonSchema(openApiSpec, schemaCache, schema, {},
                                                  resolveRefs)} :
          /\ translated' = t.schema
          /\ schemaCache' = t.schemaCache
          /\ callerRefs' = t.resolvedRefs
    /\ called' = "convertOpenApiSchemaToJsonSchema"
    /\ node' = schema
    /\ mode' = resolveRefs
    /\ UNCHANGED <<converterVars, handlerVars, recoveryVars, operationArg, method>>

\* the pointers handed to the resolver
Pointers ==
    {"#/components/schemas/A", "#/components/schemas/B", "#/components/schemas/Missing",
     "#/components/parameters/limit/schema", "#/components/schemas/A/properties/b",
     "components/schemas/A", "#/components/schemas/constructor", "#/constructor"}

\* internalResolveRef(ref, resolvedRefs) with the set the caller holds
Resolve(ref) ==
    /\ \E r \in {internalResolveRef(openApiSpec, ref, callerRefs)} :
          /\ translated' = r.schema
          /\ callerRefs' = r.resolvedRefs
    /\ called' = "internalResolveRef"
    /\ node' = RefTo(ref)
    /\ UNCHANGED <<converterVars, handlerVars, recoveryVars, schemaCache, mode, operationArg,
                   method>>

ResolveNext == \E ref \in Pointers : Resolve(ref)

\* the resolver called again and again on one converter
SpecResolve == SchemaInit /\ [][ResolveNext]_vars

MixedNext ==
    \/ \E schema \in MixedNodes, resolveRefs \in BOOLEAN : TranslateAfresh(schema, resolveRefs)
    \/ \E op \in MixedOperations : ConvertOperation(op)

\* translations, each with a set of its own, and method builds on one converter
SpecMixed == SchemaInit /\ [][MixedNext]_vars

BuildNext == called = "constructor" /\ \E op \in SchemaOperations : ConvertOperation(op)

\* the method builder called on a new converter
SpecBuild == SchemaInit /\ [][BuildNext]_vars

(***************************************************************************)
(* Vocabulary of the properties.                                           *)
(***************************************************************************)
\* the operations that become tools, in document order: tool i is built from the i-th
NamedOperations(doc) ==
    SelectSeq(OperationEntries(doc),
              LAMBDA e : isOperation(e.method) /\ ~IsFalsy(GetProp(e.operation, "operationId")))

OperationIdsOf(doc) ==
    [i \in 1..Len(NamedOperations(doc)) |->
        GetProp(NamedOperations(doc)[i].operation, "operationId").v]

NamesOf(toolList) == [i \in 1..Len(toolList) |-> GetProp(toolList[i], "name").v]

\* the method names of the catalogue
CatalogueNames ==
    IF tools = Undefined THEN <<>>
    ELSE NamesOf(GetProp(GetProp(tools, apiName), "methods").v)

\* the names of the latest list-tools response
ListedNames == IF listed = Undefined THEN <<>> ELSE NamesOf(listed.v)

\* the names list-tools exposes for the catalogue
ExposedNames ==
    IF tools = Undefined THEN <<>> ELSE NamesOf(ListToolsResponse(tools, openApiLookup).v)

\* the number of the identifiers ids[1..i] longer than 64 characters
LongUpTo(ids, i) == Cardinality({j \in 1..i : Len(ids[j]) > 64})

(***************************************************************************)
(* C1: every name list-tools returns is a key of the lookup, whose entry   *)
(* is the method and path of the operation that tool was built from, and   *)
(* call-tool with a listed name does not fail with "Method ... not found". *)
(* Refuted: "API-" + name is cut to 64 characters for the list but not for *)
(* the lookup key.                                                         *)
(***************************************************************************)
C1_ListedNamesDispatch ==
    /\ \A i \in 1..Len(ListedNames) :
          LET found == GetProp(openApiLookup, ListedNames[i])
              source == NamedOperations(openApiSpec)[i]
          IN  /\ HasOwn(openApiLookup, ListedNames[i])
              /\ GetProp(found, "method") = JStr(source.method)
              /\ GetProp(found, "path") = JStr(source.path)
    /\ \A c \in 1..Len(calls) :
          (\E i \in 1..Len(ListedNames) : ListedNames[i] = calls[c].name)
             => calls[c].outcome # MethodNotFound(calls[c].name)

(***************************************************************************)
(* C2: within one build, two distinct operations get different tool names. *)
(* Refuted: an identifier of at most 64 characters is used as it is, so    *)
(* equal identifiers, and a short identifier that equals a suffixed one,   *)
(* give equal names.                                                       *)
(***************************************************************************)
C2_DistinctNames ==
    \A i, j \in 1..Len(CatalogueNames) : i # j => CatalogueNames[i] # CatalogueNames[j]

(***************************************************************************)
(* C3: every catalogue method name and every name list-tools exposes has   *)
(* at most 64 characters, whatever the suffix counter has reached.         *)
(* Refuted: from counter value 10000 on the suffix has five digits.        *)
(***************************************************************************)
C3_NamesAtMost64 ==
    /\ \A i \in 1..Len(CatalogueNames) : Len(CatalogueNames[i]) <= 64
    /\ \A i \in 1..Len(ExposedNames) : Len(ExposedNames[i]) <= 64

(***************************************************************************)
(* C4: the naming rule.  An identifier of at most 64 characters is the     *)
(* name and leaves the counter alone; a longer one becomes its first 59    *)
(* characters, "-" and the counter padded with zeros to four digits, the   *)
(* counter going up by one per long identifier in document order.          *)
(***************************************************************************)
\* k written with at least four digits
FourDigits(k) ==
    IF k >= 10000 THEN NumberToString(k)
    ELSE CharAt(DigitChars, (k \div 1000) + 1) \o CharAt(DigitChars, ((k \div 100) % 10) + 1)
         \o CharAt(DigitChars, ((k \div 10) % 10) + 1) \o CharAt(DigitChars, (k % 10) + 1)

\* the name the rule gives identifier id when it is the k-th long one
RuleName(id, k) ==
    IF Len(id) <= 64 THEN id ELSE SubSeq(id, 1, 59) \o "-" \o FourDigits(k)

ExecutionsOf(c) == {e \in 1..Len(executions) : executions[e].call = c}

KeysOf(obj) == {obj.v[i].k : i \in 1..Len(obj.v)}

\* a tool result that is exactly one text content item
IsOneTextItem(x) ==
    /\ x.t = "object" /\ KeysOf(x) = {"content"}
    /\ GetProp(x, "content").t = "array" /\ Len(GetProp(x, "content").v) = 1
    /\ GetProp(GetProp(x, "content").v[1], "type") = JStr("text")
    /\ GetProp(GetProp(x, "content").v[1], "text").t = "string"

\* the value its text encodes
Decoded(x) == JSONparse(GetProp(GetProp(x, "content").v[1], "text").v).val

\* error.data.response.data if present, else error.data, else the empty object
PayloadOf(error) ==
    LET inner == GetProp(GetProp(error.v.data, "response"), "data") IN
    IF ~IsNullish(inner) THEN inner
    ELSE IF ~IsNullish(error.v.data) THEN error.v.data
    ELSE JObj(<<>>)

(***************************************************************************)
(* C5: call-tool with a name that is not a key of the lookup fails with    *)
(* "Method <name> not found" and makes no execution call.                  *)
(* Refuted: the lookup is an object literal, and lookup[name] also finds   *)
(* what Object.prototype defines, such as "constructor".                   *)
(***************************************************************************)
C5_UnknownNameRejected ==
    \A c \in 1..Len(calls) :
       ~HasOwn(openApiLookup, calls[c].name) =>
          /\ calls[c].status = "rejected"
          /\ calls[c].outcome.t = "error"
          /\ calls[c].outcome.v.message = "Method " \o calls[c].name \o " not found"
          /\ ExecutionsOf(c) = {}

(***************************************************************************)
(* C6: a failure of the execution call with an HttpClientError is returned *)
(* as one text item encoding { status: "error", ...payload }; any other    *)
(* error is rethrown as it is.                                             *)
(***************************************************************************)
\* As claimed: the payload is spread whatever it is.
C6_PayloadAlwaysSpread ==
    \A e \in 1..Len(executions) :
       LET r == executions[e].result
           call == calls[executions[e].call]
       IN  r.t = "error" =>
              IF r.v.class = "HttpClientError"
              THEN /\ call.status = "returned"
                   /\ call.outcome =
                         TextContent(JSONstringify(
                            SpreadInto(JObj(<<Entry("status", JStr("error"))>>), PayloadOf(r))))
              ELSE call.status = "rejected" /\ call.outcome = r

\* As amended: an object or array payload is spread over { status: "error" }; a
\* string, number or boolean payload is put under the key data.
C6_StructuredFailure ==
    \A e \in 1..Len(executions) :
       LET r == executions[e].result
           call == calls[executions[e].call]
       IN  r.t = "error" =>
              IF r.v.class = "HttpClientError"
              THEN /\ call.status = "returned"
                   /\ IsOneTextItem(call.outcome)
                   /\ LET body == Decoded(call.outcome)
                          payload == PayloadOf(r)
                      IN  IF payload.t \in {"object", "array"}
                          THEN /\ KeysOf(body) = {"status"} \cup KeysOf(JObj(SpreadEntries(payload)))
                               /\ \A i \in 1..Len(SpreadEntries(payload)) :
                                     GetProp(body, SpreadEntries(payload)[i].k)
                                        = SpreadEntries(payload)[i].v
                               /\ "status" \notin KeysOf(JObj(SpreadEntries(payload)))
                                     => GetProp(body, "status") = JStr("error")
                          ELSE body = JObj(<<Entry("status", JStr("error")),
                                             Entry("data", payload)>>)
              ELSE call.status = "rejected" /\ call.outcome = r

\* a failure whose error.data.response.data is a string has been returned
C6_Witness ==
    \E e \in 1..Len(executions) :
       /\ executions[e].result =
             ErrorValue("HttpClientError", "request failed",
                JObj(<<Entry("response", JObj(<<Entry("data", JStr("bad gateway"))>>))>>))
       /\ calls[executions[e].call].status = "returned"
       /\ calls[executions[e].call].outcome =
             TextContent(JStr("{\"status\":\"error\",\"data\":\"bad gateway\"}"))

(***************************************************************************)
(* C7: a request for a registered name makes exactly one execution call,   *)
(* with the operation the lookup holds for the name and the recovered      *)
(* arguments (the empty mapping for absent or falsy arguments); when that  *)
(* call resolves, the result is one text item holding the JSON text of the *)
(* response data.                                                          *)
(***************************************************************************)
C7_OneExecutionPerCall ==
    \A c \in 1..Len(calls) :
       HasOwn(openApiLookup, calls[c].name) =>
          /\ Cardinality(ExecutionsOf(c)) = 1
          /\ \A e \in ExecutionsOf(c) :
                /\ executions[e].operation = GetProp(openApiLookup, calls[c].name)
                /\ executions[e].params =
                      IF IsFalsy(calls[c].arguments) THEN JObj(<<>>)
                      ELSE deserializeParams(calls[c].arguments)
                /\ executions[e].result.t = "object" =>
                      /\ calls[c].status = "returned"
                      /\ IsOneTextItem(calls[c].outcome)
                      /\ Decoded(calls[c].outcome) = GetProp(executions[e].result, "data")

\* a request with a string-encoded argument has been executed and answered
C7_Witness ==
    /\ Len(calls) = 1 /\ Len(executions) = 1
    /\ calls[1].name = "API-getTest"
    /\ executions[1].params =
          JObj(<<Entry("new_parent", JObj(<<Entry("page_id", JStr("p1"))>>)),
                 Entry("query", JStr("hello world"))>>)
    /\ calls[1].outcome = TextContent(JStr("{\"message\":\"success\"}"))

(***************************************************************************)
(* Vocabulary of the argument recovery properties.                         *)
(***************************************************************************)
\* a string that is the JSON text of an object or an array
EncodesStructure(x) ==
    x.t = "string" /\ JSONparse(x.v).ok /\ IsNonNullObject(JSONparse(x.v).val)

\* a value deserializeParams replaces when it finds it under a key
Repaired(x) ==
    \/ EncodesStructure(x)
    \/ x.t = "array" /\ \E i \in 1..Len(x.v) : EncodesStructure(x.v[i])

\* deserializeParams ran on { x: subject }
DirectCall == args = JObj(<<Entry("x", subject)>>)

\* deserializeParams ran on { x: JSON.stringify(subject) }
EncodedCall ==
    IsNonNullObject(subject) /\ args = JObj(<<Entry("x", JSONstringify(subject))>>)

C10_ArrayMixing ==
    (DirectCall /\ subject.t = "array") =>
       LET out == GetProp(recovered, "x") IN
       /\ KeysOf(recovered) = {"x"}
       /\ out.t = "array"
       /\ Len(out.v) = Len(subject.v)
       /\ \A i \in 1..Len(subject.v) :
             LET item == subject.v[i] IN
             IF EncodesStructure(item)
             THEN LET parsed == JSONparse(item.v).val IN
                  out.v[i] = IF parsed.t = "array" THEN parsed ELSE deserializeParams(parsed)
             ELSE out.v[i] = item

\* a mixed array: encoded object with JSON text inside, plain object, plain string
C10_Witness ==
    /\ DirectCall
    /\ subject = JArr(<<JStr("{\"a\":\" {} \"}"), JObj(<<Entry("b", JNum(2))>>), JStr("plain")>>)
    /\ GetProp(recovered, "x") =
          JArr(<<JObj(<<Entry("a", JObj(<<>>))>>), JObj(<<Entry("b", JNum(2))>>), JStr("plain")>>)

C19_HintFollowsMethod ==
    listed # Undefined =>
       \A i \in 1..Len(listed.v) :
          LET annotations == GetProp(listed.v[i], "annotations")
              source == NamedOperations(openApiSpec)[i]
              hints == KeysOf(annotations) \cap {"readOnlyHint", "destructiveHint"}
          IN  IF toLowerCase(source.method) = "get"
              THEN hints = {"readOnlyHint"}
                   /\ GetProp(annotations, "readOnlyHint") = JBool(TRUE)
              ELSE hints = {"destructiveHint"}
                   /\ GetProp(annotations, "destructiveHint") = JBool(TRUE)

(***************************************************************************)
(* C17: the catalogue holds exactly one tool, and the lookup one entry,    *)
(* for each path/method pair whose method is get, post, put, delete or     *)
(* patch (in either case of letters) and whose operation has a non-empty   *)
(* identifier, in document order; an operation without identifier and any  *)
(* other key under a path item produce nothing and stop nothing.           *)
(***************************************************************************)
IsVerb(key) == \E verb \in {"get", "post", "put", "delete", "patch"} : toLowerCase(key) = verb

HasIdentifier(operation) ==
    HasOwn(operation, "operationId") /\ GetProp(operation, "operationId") # JStr("")

C17_OneToolPerOperation ==
    tools # Undefined =>
       LET expected == SelectSeq(OperationEntries(openApiSpec),
                                 LAMBDA e : IsVerb(e.method) /\ HasIdentifier(e.operation))
       IN  /\ KeysOf(tools) = {"API"}
           /\ CatalogueNames =
                 [i \in 1..Len(expected) |-> GetProp(expected[i].operation, "operationId").v]
           /\ Len(openApiLookup.v) = Len(expected)
           /\ \A i \in 1..Len(expected) :
                 /\ openApiLookup.v[i].k = "API-" \o CatalogueNames[i]
                 /\ GetProp(openApiLookup.v[i].v, "method") = JStr(expected[i].method)
                 /\ GetProp(openApiLookup.v[i].v, "path") = JStr(expected[i].path)

\* a build over an operation without identifier, a key that is no verb and a verb
C17_Witness ==
    /\ openApiSpec =
          [paths |-> <<[path |-> "/p1",
                        item |-> <<[key |-> "post", operation |-> OperationWithoutId],
                                   [key |-> "head", operation |-> OperationWithId("op2")]>>],
                       [path |-> "/p2",
                        item |-> <<[key |-> "delete", operation |-> OperationWithId("op3")]>>]>>]
    /\ CatalogueNames = <<"op3">>
    /\ KeysOf(openApiLookup) = {"API-op3"}

(***************************************************************************)
(* Vocabulary of the tool schema properties.                               *)
(***************************************************************************)
\* a convertOperationToMCPMethod call that returned a method
Built == called = "convertOperationToMCPMethod" /\ method # JNull

\* the two schemas of the built method; returnSchema is Undefined when absent
InputSchema == GetProp(method, "inputSchema")
ReturnSchema == GetProp(method, "returnSchema")

\* every string found under a $ref key, at any depth
RECURSIVE RefTargets(_)
RefTargets(x) ==
    IF x.t = "object"
    THEN UNION {IF x.v[i].k = "$ref" /\ x.v[i].v.t = "string"
                THEN {x.v[i].v.v}
                ELSE RefTargets(x.v[i].v) : i \in 1..Len(x.v)}
    ELSE IF x.t = "array"
    THEN UNION {RefTargets(x.v[i]) : i \in 1..Len(x.v)}
    ELSE {}

\* the keys of the schema's own $defs map
DefsKeys(schema) ==
    IF GetProp(schema, "$defs").t = "object" THEN KeysOf(GetProp(schema, "$defs")) ELSE {}

SelfContained(schema) ==
    \A ref \in RefTargets(schema) :
       startsWith(ref, LocalDefsPrefix) =>
          SubSeq(ref, Len(LocalDefsPrefix) + 1, Len(ref)) \in DefsKeys(schema)

(***************************************************************************)
(* C12: self-containment: in the input schema and the return schema of     *)
(* every built tool, every $ref string starting with "#/$defs/" names a    *)
(* key of that same schema's $defs map, also for documents whose           *)
(* references point to component schemas that do not exist.                *)
(* Refuted: a reference to a component schema is rewritten without a look  *)
(* at the components, so a missing target leaves a $ref with no entry.     *)
(***************************************************************************)
C12_SelfContained ==
    Built => SelfContained(InputSchema) /\ SelfContained(ReturnSchema)

\* the named schemas of the document, an empty object when it has none
ComponentSchemas ==
    LET schemas == GetProp(GetProp(DocumentObject(openApiSpec), "components"), "schemas")
    IN  IF schemas.t = "object" THEN schemas ELSE JObj(<<>>)

\* a reference to a named schema of the components section
IsSchemaRef(schema) ==
    /\ schema.t = "object"
    /\ GetProp(schema, "$ref").t = "string"
    /\ startsWith(GetProp(schema, "$ref").v, ComponentsSchemasPrefix)

RefName(schema) ==
    SubSeq(GetProp(schema, "$ref").v, Len(ComponentsSchemasPrefix) + 1,
           Len(GetProp(schema, "$ref").v))

\* the schemas of the built method that carry a $defs map
SchemasWithDefs ==
    {s \in {InputSchema, ReturnSchema} : s.t = "object" /\ HasOwn(s, "$defs")}

\* $defs has one entry per named schema, in document order, and every property of a
\* named schema that references a named schema is a local $ref node and nothing more
DefsMirrorComponents(defs) ==
    /\ defs.t = "object"
    /\ [i \in 1..Len(defs.v) |-> defs.v[i].k]
          = [i \in 1..Len(ComponentSchemas.v) |-> ComponentSchemas.v[i].k]
    /\ \A i \in 1..Len(ComponentSchemas.v) :
          LET properties == GetProp(ComponentSchemas.v[i].v, "properties") IN
          properties.t = "object" =>
             \A j \in 1..Len(properties.v) :
                LET source == properties.v[j].v
                    target == GetProp(GetProp(defs.v[i].v, "properties"), properties.v[j].k)
                IN  IsSchemaRef(source) =>
                       /\ KeysOf(target) \subseteq {"$ref", "description"}
                       /\ GetProp(target, "$ref") = JStr(LocalDefsPrefix \o RefName(source))

(***************************************************************************)
(* C13: cycle termination: translating a document whose component schemas  *)
(* reference each other in a cycle (A has a property referencing B and B   *)
(* one referencing A, or a schema referencing itself) ends, and $defs has  *)
(* one entry per named schema in which each cross-reference is a local     *)
(* $ref to the other entry, not expanded.                                  *)
(***************************************************************************)
C13_CyclesStayReferences ==
    Built => \A schema \in SchemasWithDefs : DefsMirrorComponents(GetProp(schema, "$defs"))

\* a method built over the document in which A and B reference each other
C13_Witness ==
    /\ Built
    /\ ComponentSchemas = GetProp(CyclicComponents, "schemas")
    /\ GetProp(InputSchema, "$defs") =
          JObj(<<Entry("A", JObj(<<Entry("type", JStr("object")),
                                   Entry("description", JStr("schema A")),
                                   Entry("properties",
                                         JObj(<<Entry("b", JObj(<<Entry("$ref", JStr("#/$defs/B"))>>))>>)),
                                   Entry("additionalProperties", JBool(TRUE))>>)),
                 Entry("B", JObj(<<Entry("type", JStr("object")),
                                   Entry("properties",
                                         JObj(<<Entry("a", JObj(<<Entry("$ref", JStr("#/$defs/A")),
                                                                  Entry("description", JStr("back to A"))>>))>>)),
                                   Entry("additionalProperties", JBool(TRUE))>>))>>)
    /\ GetProp(ReturnSchema, "$defs") = GetProp(InputSchema, "$defs")

\* a schema translated as the method builder has it translated
Preserved(schema) ==
    convertOpenApiSchemaToJsonSchema(openApiSpec, JObj(<<>>), schema, {}, FALSE).schema

StringSchema == JObj(<<Entry("type", JStr("string"))>>)

AnyObjectSchema ==
    JObj(<<Entry("type", JStr("object")), Entry("additionalProperties", JBool(TRUE))>>)

\* the string-fallback rule as stated
IsComplexShape(original) ==
    \/ GetProp(original, "type") = JStr("object")
    \/ \E key \in {"$ref", "anyOf", "oneOf", "allOf"} : HasOwn(original, key)

IsArrayWithItems(original) ==
    GetProp(original, "type") = JStr("array") /\ HasOwn(original, "items")

FollowsFallbackRule(placed, original) ==
    IF IsComplexShape(original)
    THEN placed = JObj(<<Entry("anyOf", JArr(<<original, StringSchema>>))>>)
    ELSE IF IsArrayWithItems(original)
    THEN /\ KeysOf(placed) = KeysOf(original)
         /\ \A key \in KeysOf(original) \ {"items"} : GetProp(placed, key) = GetProp(original, key)
         /\ GetProp(placed, "items") =
               JObj(<<Entry("anyOf", JArr(<<GetProp(original, "items"), StringSchema,
                                            AnyObjectSchema>>))>>)
    ELSE placed = original

\* the body schema of the operation under a content type, translated; Undefined if none
BodySchema(type) ==
    LET body == GetProp(operationArg, "requestBody")
        bodyObj == IF body.t = "object" THEN resolveRequestBody(openApiSpec, body) ELSE JNull
        schema == GetProp(GetProp(GetProp(bodyObj, "content"), type), "schema")
    IN  IF schema.t = "object" THEN Preserved(schema) ELSE Undefined

\* the schemas the input schema's properties come from, each with the name it is placed
\* under: the parameters with their description merged, the properties of the body schema
\* and the body schema itself
Originals ==
    LET parameters == GetProp(operationArg, "parameters")
        fromParameters ==
            IF parameters.t # "array" THEN {}
            ELSE {[name |-> GetProp(p, "name").v,
                   schema |-> IF IsFalsy(GetProp(p, "description"))
                              THEN Preserved(GetProp(p, "schema"))
                              ELSE SetProp(Preserved(GetProp(p, "schema")), "description",
                                           GetProp(p, "description"))] :
                    p \in {q \in {resolveParameter(openApiSpec, parameters.v[i]) :
                                     i \in 1..Len(parameters.v)} :
                              GetProp(q, "schema").t = "object"}}
        FromBody(type) ==
            LET properties == GetProp(BodySchema(type), "properties") IN
            IF properties.t # "object" THEN {}
            ELSE {[name |-> properties.v[i].k, schema |-> properties.v[i].v] :
                     i \in 1..Len(properties.v)}
        whole == IF BodySchema("application/json") = Undefined THEN {}
                 ELSE {[name |-> "body", schema |-> BodySchema("application/json")]}
    IN  fromParameters \cup FromBody("multipart/form-data") \cup FromBody("application/json")
        \cup whole

PlacedProperties == GetProp(InputSchema, "properties")

(***************************************************************************)
(* C14: string-fallback rule: every parameter and request-body property    *)
(* placed in a tool's input schema is {anyOf: [original, {type: "string"}]}*)
(* when the original has type object, a $ref or anyOf/oneOf/allOf; is the  *)
(* original with items replaced by {anyOf: [original items, {type:         *)
(* "string"}, {type: "object", additionalProperties: true}]} when it is an *)
(* array with items; and is the original unchanged otherwise.              *)
(***************************************************************************)
C14_StringFallback ==
    Built =>
       \A i \in 1..Len(PlacedProperties.v) :
          \E original \in Originals :
             /\ original.name = PlacedProperties.v[i].k
             /\ FollowsFallbackRule(PlacedProperties.v[i].v, original.schema)

\* a method with an array, a reference, a composition and an array without items among
\* its parameters, and a scalar as its body
C14_Witness ==
    /\ Built
    /\ ComponentSchemas = GetProp(CyclicComponents, "schemas")
    /\ PlacedProperties =
          JObj(<<Entry("tags",
                    JObj(<<Entry("type", JStr("array")),
                           Entry("items",
                              JObj(<<Entry("anyOf",
                                 JArr(<<StringSchema, StringSchema, AnyObjectSchema>>))>>))>>)),
                 Entry("ref",
                    JObj(<<Entry("anyOf",
                       JArr(<<JObj(<<Entry("$ref", JStr("#/$defs/A"))>>), StringSchema>>))>>)),
                 Entry("either",
                    JObj(<<Entry("anyOf",
                       JArr(<<JObj(<<Entry("oneOf",
                                 JArr(<<StringSchema,
                                        JObj(<<Entry("type", JStr("integer"))>>)>>))>>),
                              StringSchema>>))>>)),
                 Entry("bare", JObj(<<Entry("type", JStr("array"))>>)),
                 Entry("body", StringSchema)>>)

(***************************************************************************)
(* Vocabulary of the translator properties.                                *)
(***************************************************************************)
Translated == called = "convertOpenApiSchemaToJsonSchema"

IsBinary(schema) == GetProp(schema, "format") = JStr("binary")

\* the description a binary node gets; an empty description counts as none
UploadDescription(schema) ==
    IF GetProp(schema, "description") \in {Undefined, JStr("")}
    THEN JStr("absolute paths to local files")
    ELSE JStr(GetProp(schema, "description").v \o " (absolute paths to local files)")

\* the pairs of a child of the input schema and the node translated from it: properties
\* of an object, additionalProperties of an object, items of an array, members of a
\* composition
ChildPairs(input, output) ==
    LET Under(key) ==
            IF GetProp(input, key).t = "object" /\ GetProp(output, key).t = "object"
            THEN {<<GetProp(input, key).v[i].v, GetProp(GetProp(output, key), GetProp(input, key).v[i].k)>> :
                     i \in 1..Len(GetProp(input, key).v)}
            ELSE {}
        One(key) ==
            IF GetProp(input, key).t = "object" /\ GetProp(output, key).t = "object"
            THEN {<<GetProp(input, key), GetProp(output, key)>>}
            ELSE {}
        Members(key) ==
            IF GetProp(input, key).t = "array" /\ GetProp(output, key).t = "array"
               /\ Len(GetProp(input, key).v) = Len(GetProp(output, key).v)
            THEN {<<GetProp(input, key).v[i], GetProp(output, key).v[i]>> :
                     i \in 1..Len(GetProp(input, key).v)}
            ELSE {}
    IN  Under("properties") \cup One("additionalProperties") \cup One("items")
        \cup Members("oneOf") \cup Members("anyOf") \cup Members("allOf")

\* every binary node of the input, reached without going through a reference, is
\* rewritten in the node translated from it
RECURSIVE BinaryRewritten(_, _)
BinaryRewritten(input, output) ==
    \/ input.t # "object"
    \/ HasOwn(input, "$ref")
    \/ /\ output.t = "object"
       /\ IsBinary(input) =>
             /\ GetProp(output, "format") = JStr("uri-reference")
             /\ GetProp(output, "description") = UploadDescription(input)
       /\ \A pair \in ChildPairs(input, output) : BinaryRewritten(pair[1], pair[2])

\* some node of the schema, at any depth, has format binary
RECURSIVE KeepsBinary(_)
KeepsBinary(x) ==
    \/ x.t = "object" /\ (IsBinary(x) \/ \E i \in 1..Len(x.v) : KeepsBinary(x.v[i].v))
    \/ x.t = "array" /\ \E i \in 1..Len(x.v) : KeepsBinary(x.v[i])

(***************************************************************************)
(* C15: binary rewrite: wherever a node with format "binary" occurs in the *)
(* translator's input (as a property, as array items, inside oneOf, anyOf  *)
(* or allOf members, at any depth), the translated node has format         *)
(* "uri-reference" and the description "<original> (absolute paths to      *)
(* local files)", or the bare text "absolute paths to local files" when    *)
(* there was no original description; no translated node keeps format      *)
(* "binary".                                                               *)
(***************************************************************************)
C15_BinaryRewrite ==
    Translated => BinaryRewritten(node, translated) /\ ~KeepsBinary(translated)

\* a composition with a binary member and, in another member, an array of binary items
C15_Witness ==
    /\ Translated
    /\ node = JObj(<<Entry("oneOf", JArr(<<BinaryFile,
                                           ObjectOf(<<Entry("files", ArrayOf(BinaryPhoto))>>)>>))>>)
    /\ translated =
          JObj(<<Entry("oneOf",
             JArr(<<JObj(<<Entry("type", JStr("string")),
                           Entry("format", JStr("uri-reference")),
                           Entry("description", JStr("absolute paths to local files"))>>),
                    JObj(<<Entry("type", JStr("object")),
                           Entry("properties",
                              JObj(<<Entry("files",
                                 JObj(<<Entry("type", JStr("array")),
                                        Entry("items",
                                           JObj(<<Entry("type", JStr("string")),
                                                  Entry("format", JStr("uri-reference")),
                                                  Entry("description",
                                                     JStr("Photo (absolute paths to local files)"))>>))>>))>>)),
                           Entry("additionalProperties", JBool(TRUE))>>)>>))>>)

\* the parameters of the operation that are placed, in order
PlacedParameters ==
    LET parameters == GetProp(operationArg, "parameters") IN
    IF parameters.t # "array" THEN <<>>
    ELSE SelectSeq([i \in 1..Len(parameters.v) |-> resolveParameter(openApiSpec, parameters.v[i])],
                   LAMBDA p : GetProp(p, "schema").t = "object")

ParameterNames == {GetProp(PlacedParameters[i], "name").v : i \in 1..Len(PlacedParameters)}

\* the names the parameters put on the required list
RequiredParameters ==
    LET required == SelectSeq(PlacedParameters, LAMBDA p : GetProp(p, "required") = JBool(TRUE))
    IN  [i \in 1..Len(required) |-> GetProp(required[i], "name")]

\* the required list of a translated body schema
RequiredOf(schema) ==
    IF GetProp(schema, "required").t = "array" THEN GetProp(schema, "required").v ELSE <<>>

PropertyNames(schema) ==
    IF GetProp(schema, "properties").t = "object" THEN KeysOf(GetProp(schema, "properties"))
    ELSE {}

\* the input schema holds the parameters and these names, and its required list is the
\* parameters' followed by this one
BodyContributes(names, required) ==
    /\ KeysOf(PlacedProperties) = ParameterNames \cup names
    /\ GetProp(InputSchema, "required") = JArr(RequiredParameters \o required)

(***************************************************************************)
(* C16: request-body rule: multipart/form-data content is used in          *)
(* preference to application/json when both are present; when the JSON     *)
(* body schema is itself an object its properties are merged into the      *)
(* input schema with its required list appended and no synthetic property  *)
(* is created; when it is not an object (bare array, scalar or reference)  *)
(* the input schema gets exactly one synthetic property "body", listed in  *)
(* required and wrapped with the string-fallback rule.                     *)
(* Refuted: an object body schema without a properties key is treated as   *)
(* not being an object and is placed under "body".                         *)
(***************************************************************************)
C16_RequestBodyRule ==
    Built =>
       LET form == BodySchema("multipart/form-data")
           json == BodySchema("application/json")
       IN  IF form # Undefined
           THEN \/ GetProp(form, "type") # JStr("object")
                \/ BodyContributes(PropertyNames(form), RequiredOf(form))
           ELSE IF json = Undefined THEN BodyContributes({}, <<>>)
           ELSE IF GetProp(json, "type") = JStr("object")
           THEN BodyContributes(PropertyNames(json), RequiredOf(json))
           ELSE /\ BodyContributes({"body"}, <<JStr("body")>>)
                /\ FollowsFallbackRule(GetProp(PlacedProperties, "body"), json)

SuccessCodes == <<"200", "201", "202", "204">>

\* the success responses the operation declares, in the order 200, 201, 202, 204
DeclaredSuccesses ==
    SelectSeq([i \in 1..4 |-> GetProp(GetProp(operationArg, "responses"), SuccessCodes[i])],
              LAMBDA response : response.t = "object")

\* the return schema follows the rule for this response
DerivedFrom(response) ==
    LET responseObj == resolveResponse(openApiSpec, response)
        content == GetProp(responseObj, "content")
        json == GetProp(GetProp(content, "application/json"), "schema")
        isImage == \E type \in {"image/png", "image/jpeg"} : HasOwn(content, type)
    IN  IF json.t = "object"
        THEN /\ \A key \in KeysOf(Preserved(json)) :
                   GetProp(ReturnSchema, key) = GetProp(Preserved(json), key)
             /\ KeysOf(ReturnSchema) \subseteq KeysOf(Preserved(json)) \cup {"$defs", "description"}
             /\ GetProp(ReturnSchema, "$defs") = GetProp(InputSchema, "$defs")
        ELSE IF content.t = "object" /\ isImage
        THEN /\ GetProp(ReturnSchema, "type") = JStr("string")
             /\ GetProp(ReturnSchema, "format") = JStr("binary")
        ELSE /\ GetProp(ReturnSchema, "type") = JStr("string")
             /\ ~HasOwn(ReturnSchema, "format")
             /\ GetProp(responseObj, "description").t = "string" =>
                   GetProp(ReturnSchema, "description") = GetProp(responseObj, "description")

(***************************************************************************)
(* C18: return-schema rule: a tool has no return schema exactly when its   *)
(* operation declares none of the responses 200, 201, 202, 204; otherwise  *)
(* the return schema is derived from the first of those four that is       *)
(* present: its JSON content schema translated with $defs attached, a      *)
(* {type: "string", format: "binary"} placeholder for image content, and a *)
(* {type: "string"} placeholder carrying the response description for      *)
(* anything else without JSON content.                                     *)
(* Refuted: a declared success response without content (a 204 with only a *)
(* description), or one given by a reference that does not resolve, yields *)
(* no return schema.                                                       *)
(***************************************************************************)
C18_ReturnSchemaRule ==
    Built =>
       IF DeclaredSuccesses = <<>>
       THEN ~HasOwn(method, "returnSchema")
       ELSE HasOwn(method, "returnSchema") /\ DerivedFrom(DeclaredSuccesses[1])

\* the local reference node for a reference to a named schema
LocalReferenceTo(schema) ==
    JObj(<<Entry("$ref", JStr(LocalDefsPrefix \o RefName(schema)))>>
         \o (IF HasOwn(schema, "description")
             THEN <<Entry("description", GetProp(schema, "description"))>>
             ELSE <<>>))

(***************************************************************************)
(* C20: in preserved-reference mode, translating a reference to            *)
(* #/components/schemas/<name> returns exactly {$ref: "#/$defs/<name>"}    *)
(* plus the description written at the referencing site when there is one; *)
(* the target is not expanded, and the result does not depend on the cache *)
(* contents, on the in-progress set or on the description of the           *)
(* referenced schema; the call changes neither the cache nor the set.      *)
(***************************************************************************)
C20_PreservedReference ==
    [][(called' = "convertOpenApiSchemaToJsonSchema" /\ mode' = FALSE /\ IsSchemaRef(node'))
          => /\ translated' = LocalReferenceTo(node')
             /\ schemaCache' = schemaCache
             /\ callerRefs' = callerRefs]_vars

\* a described reference to A translated while the cache holds the expansion of A, the
\* set holds A and B, and A has a description of its own
C20_Witness ==
    /\ Translated
    /\ mode = FALSE
    /\ node = SetProp(SchemaRef("A"), "description", JStr("site"))
    /\ translated = JObj(<<Entry("$ref", JStr("#/$defs/A")), Entry("description", JStr("site"))>>)
    /\ GetProp(GetProp(ComponentSchemas, "A"), "description") = JStr("schema A")
    /\ HasOwn(schemaCache, "#/components/schemas/A")
    /\ callerRefs = {"#/components/schemas/A", "#/components/schemas/B"}

(***************************************************************************)
(* C22: building the catalogue again from the same document yields the     *)
(* same tool names and the same lookup keys as the first build: the        *)
(* suffix counter starts from 0001 in every build and no counter value     *)
(* carries over from an earlier build, also when the same converter object *)
(* is used for both builds.                                                *)
(* Refuted: nameCounter is a field of the converter that no build resets,  *)
(* so a second build on the same converter continues from where the first  *)
(* one stopped.                                                            *)
(***************************************************************************)
C22_RebuildSameNames ==
    [][tools # Undefined =>
          /\ CatalogueNames' = CatalogueNames
          /\ [i \in 1..Len(openApiLookup'.v) |-> openApiLookup'.v[i].k]
                = [i \in 1..Len(openApiLookup.v) |-> openApiLookup.v[i].k]]_vars

(***************************************************************************)
(* C21: the translator is a pure function of (schema node, resolution      *)
(* mode): on one converter, translating the same node in the same mode     *)
(* returns an equal result no matter which other translations, catalogue   *)
(* builds or parameter-description merges happened before it; the shared   *)
(* translation cache never changes the outcome.                            *)
(* Refuted: a reference that is expanded returns the cache entry of its    *)
(* pointer when there is one, and that entry is what an earlier call left: *)
(* the expansion seen from inside another schema's cycle, or an object a   *)
(* method build wrote a parameter description into.                        *)
(***************************************************************************)
C21_PureTranslation ==
    Translated =>
       translated = convertOpenApiSchemaToJsonSchema(openApiSpec, JObj(<<>>), node, {},
                                                     mode).schema

(***************************************************************************)
(* C29: for every structured execution failure, the object encoded in the  *)
(* returned error content item has its status field equal to "error",      *)
(* whatever keys the error payload contains, also a payload with a status  *)
(* key of its own.                                                         *)
(* Refuted: the payload is spread after status: 'error', so the payload's  *)
(* own status entry replaces it.                                           *)
(***************************************************************************)
C29_StatusIsError ==
    \A e \in 1..Len(executions) :
       LET r == executions[e].result
           call == calls[executions[e].call]
       IN  (r.t = "error" /\ r.v.class = "HttpClientError") =>
              /\ call.status = "returned"
              /\ IsOneTextItem(call.outcome)
              /\ GetProp(Decoded(call.outcome), "status") = JStr("error")

\* the catalogue and the lookup are the ones the constructor built from the document
AsConstructed ==
    /\ tools = ToolsObject(convertToMCPTools(openApiSpec, 0).methods)
    /\ openApiLookup = convertToMCPTools(openApiSpec, 0).openApiLookup

(***************************************************************************)
(* C25: the API document is not modified by a catalogue build, and after   *)
(* construction no sequence of list-tools and call-tool invocations        *)
(* (successful, failing with a structured error, or rejected for an        *)
(* unknown name) changes the tool catalogue or the lookup.                 *)
(***************************************************************************)
C25_CatalogueReadOnly ==
    /\ []AsConstructed
    /\ [][openApiSpec' = openApiSpec /\ tools' = tools /\ openApiLookup' = openApiLookup]_vars

\* after a list-tools request and a call that failed with a structured error
C25_Witness ==
    /\ listed # Undefined
    /\ Len(listed.v) = 2
    /\ Len(calls) = 1
    /\ calls[1].status = "returned"
    /\ executions[1].result.t = "error"
    /\ Len(GetProp(GetProp(tools, apiName), "methods").v) = 2
    /\ Len(openApiLookup.v) = 2

\* what request c has come to, given only its own name, its own arguments and what its
\* own execution call settled with (Undefined while it is awaited)
OwnOutcome(name, arguments, result) ==
    IF IsFalsy(findOperation(openApiLookup, name))
    THEN [status |-> "rejected", outcome |-> MethodNotFound(name)]
    ELSE IF result = Undefined THEN [status |-> "awaiting", outcome |-> Undefined]
    ELSE IF result.t = "error" THEN CallToolCatch(result)
    ELSE CallToolSuccess(result)

\* what the execution call of request c settled with
OwnResult(c) ==
    IF ExecutionsOf(c) = {} THEN Undefined
    ELSE executions[CHOOSE e \in ExecutionsOf(c) : TRUE].result

(***************************************************************************)
(* C23: concurrent tool calls are independent: for any interleaving of     *)
(* call-tool invocations around their single suspension point (the awaited *)
(* execution call), each call's result is determined only by its own name, *)
(* its own arguments and the outcome of its own execution call, and a      *)
(* failure of one call changes neither the result of another call nor the  *)
(* catalogue.                                                              *)
(***************************************************************************)
C23_CallsIndependent ==
    /\ AsConstructed
    /\ \A c \in 1..Len(calls) :
          /\ Cardinality(ExecutionsOf(c)) <= 1
          /\ \A e \in ExecutionsOf(c) :
                /\ executions[e].operation = findOperation(openApiLookup, calls[c].name)
                /\ executions[e].params = DeserializedParams(calls[c].arguments)
          /\ [status |-> calls[c].status, outcome |-> calls[c].outcome]
                = OwnOutcome(calls[c].name, calls[c].arguments, OwnResult(c))

\* the second of two requests in flight has failed while the first is still awaited
C23_Witness ==
    /\ Len(calls) = 2
    /\ calls[1].status = "awaiting"
    /\ calls[2].status = "rejected"
    /\ calls[2].name = "API-getTest"
    /\ OwnResult(2) = ErrorValue("TypeError", "fetch failed", Undefined)
    /\ OwnResult(1) = Undefined

\* both of two requests in flight have been answered, the first after the second failed
C23_BothSettled ==
    /\ Len(calls) = 2
    /\ calls[2].status = "returned" /\ OwnResult(2).t = "error"
    /\ calls[1].status = "returned" /\ OwnResult(1).t = "object"

\* a string that is the JSON text of an object
EncodesObject(x) == EncodesStructure(x) /\ JSONparse(x.v).val.t = "object"

(***************************************************************************)
(* C24: a top-level string argument that parses to an object is repaired   *)
(* recursively with the same algorithm, so a stringified object nested     *)
(* inside a stringified object is recovered at every level; a top-level    *)
(* string argument that parses to an array is replaced by the parsed array *)
(* with its elements left exactly as parsed.                               *)
(***************************************************************************)
C24_NestedRecovery ==
    (DirectCall /\ EncodesStructure(subject)) =>
       LET parsed == JSONparse(subject.v).val
           out == GetProp(recovered, "x")
       IN  IF parsed.t = "array"
           THEN out = parsed
           ELSE /\ out = deserializeParams(parsed)
                /\ KeysOf(out) = KeysOf(parsed)
                /\ \A i \in 1..Len(parsed.v) :
                      EncodesObject(parsed.v[i].v) =>
                         GetProp(out, parsed.v[i].k)
                            = deserializeParams(JSONparse(parsed.v[i].v.v).val)

\* the text of an object holding the text of an object has been recovered at both levels
C24_Witness ==
    /\ DirectCall
    /\ subject = JSONstringify(JObj(<<Entry("a", JSONstringify(JObj(<<>>)))>>))
    /\ subject = JStr("{\"a\":\"{}\"}")
    /\ GetProp(recovered, "x") = JObj(<<Entry("a", JObj(<<>>))>>)

\* the text of an array holding the text of an object has come back as parsed
C24_ArrayKept ==
    /\ DirectCall
    /\ subject = JStr("[\" {} \"]")
    /\ GetProp(recovered, "x") = JArr(<<JStr(" {} ")>>)

(***************************************************************************)
(* C28: argument recovery is idempotent: for every argument mapping a,     *)
(* deserializeParams(deserializeParams(a)) equals deserializeParams(a),    *)
(* including when a value is a string encoding an array whose elements are *)
(* themselves JSON strings.                                                *)
(***************************************************************************)
C28_Idempotent == args # Undefined => deserializeParams(recovered) = recovered

(***************************************************************************)
(* C26: when the translator expands a reference, the cache entry of the    *)
(* pointer exists before the translator recurses into the resolved node,   *)
(* so a re-entry on the same pointer during that recursion is answered     *)
(* from the cache.  Seen from outside: a top-level call that expands       *)
(* references, on a converter that has cached nothing yet, returns no      *)
(* reference node for a pointer the call has cached.                       *)
(***************************************************************************)
C26_ReentryFromCache ==
    [][(schemaCache = JObj(<<>>) /\ called' = "convertOpenApiSchemaToJsonSchema" /\ mode')
         => \A i \in 1..Len(schemaCache'.v) :
               RewriteRef(schemaCache'.v[i].k) \notin RefTargets(translated')]_vars

\* the node a pointer addresses in the document, following own keys only; Undefined
\* when a segment is missing
NodeAt(doc, ref) ==
    LET parts == SplitOn(SubSeq(ref, 3, Len(ref)), "/")
        RECURSIVE Follow(_, _)
        Follow(current, i) ==
            IF i > Len(parts) THEN current
            ELSE IF current.t = "object" /\ HasOwn(current, parts[i])
            THEN Follow(GetProp(current, parts[i]), i + 1)
            ELSE Undefined
    IN  Follow(DocumentObject(doc), 1)

(***************************************************************************)
(* C27: reference resolution fails when the pointer does not begin with    *)
(* "#/", when the pointer is already in the in-progress set, or when any   *)
(* path segment is missing from the document; otherwise it returns the     *)
(* addressed node and adds the pointer to the in-progress set.  A failed   *)
(* resolution adds nothing to the set, and no resolution changes the       *)
(* document or the translation cache.                                      *)
(***************************************************************************)
C27_ResolutionRule ==
    [][called' = "internalResolveRef" =>
          LET ref == GetProp(node', "$ref").v IN
          /\ IF \/ ~startsWith(ref, "#/")
                \/ ref \in callerRefs
                \/ NodeAt(openApiSpec, ref) = Undefined
             THEN translated' = JNull /\ callerRefs' = callerRefs
             ELSE translated' = NodeAt(openApiSpec, ref) /\ callerRefs' = callerRefs \cup {ref}
          /\ openApiSpec' = openApiSpec
          /\ schemaCache' = schemaCache]_vars

(***************************************************************************)
(* C30: in every tool input schema produced by a catalogue build, each     *)
(* name in the top-level required list is a key of the top-level           *)
(* properties map and appears in the list only once, also when a parameter *)
(* and a request-body property share a name or when a body schema lists a  *)
(* required name it does not define.                                       *)
(***************************************************************************)
C30_RequiredAreProperties ==
    Built =>
       LET required == RequiredOf(InputSchema) IN
       /\ \A i \in 1..Len(required) :
             required[i].t = "string" /\ required[i].v \in PropertyNames(InputSchema)
       /\ \A i, j \in 1..Len(required) : required[i] = required[j] => i = j

====
